---- MODULE Spec2Model ----
\* A model of the trading-bot orchestration engine: BotManager (bot_manager.py),
\* the agents it drives (base_bot.py, simple_bot.py) and the gateway calls
\* they make.  Gateway results are inputs of the actions, drawn from small sets.
EXTENDS Integers, Sequences, FiniteSets, TLC

\* ---------------------------------------------------------------- bounds
\* Number of Thread objects start() may create in one behaviour.
MaxSpawn == 2

\* Trade records an agent may append in one behaviour.
MaxHistory == 2

\* ---------------------------------------------------------------- inputs
\* Threads that call the manager's public methods.
Callers == {"c1", "c2"}
\* Cycle threads (targets of Thread(target=self._run)); 0 is "no thread".
Threads == 1..MaxSpawn
NoThread == 0

\* Agent objects handed to add_bot.  b1, b2: SimpleBot.  b3: another BaseBot
\* subclass (analyze unspecified), same symbol as b1.  b4: TradingBot, which
\* has a symbol but no analyze method.
Bots == {"b1", "b2", "b3", "b4"}
\* Ticker prices the gateway may return.
Prices == {100, 103}
\* LOT_SIZE step sizes, as the number of decimals of stepSize.
StepDigits == {0, 2}
\* Decimals of a quantity the model keeps.
QDigits == 4

symbol(b) ==
    CASE b = "b1" -> "BTCUSDT"
      [] b = "b2" -> "ETHUSDT"
      [] b = "b3" -> "BTCUSDT"
      [] OTHER -> "SOLUSDT"

kind(b) ==
    CASE b \in {"b1", "b2"} -> "SimpleBot"
      [] b = "b3" -> "BaseBot"
      [] OTHER -> "TradingBot"

\* hasattr(bot, 'symbol') and hasattr(bot, 'analyze')
has_required_attributes(b) == kind(b) \in {"SimpleBot", "BaseBot"}

investment_amount == 100
profit_target == 102
stop_loss == 98

\* Gateway results.
TickerInputs ==
    {[ok |-> FALSE, price |-> 0]} \cup {[ok |-> TRUE, price |-> p] : p \in Prices}
OrderInputs == {"ok", "api_error", "error"}
InfoInputs ==
    {[k |-> "raise", d |-> 0], [k |-> "none", d |-> 0]}
        \cup {[k |-> "step", d |-> d] : d \in StepDigits}

RECURSIVE Pow10(_)
Pow10(n) == IF n = 0 THEN 1 ELSE 10 * Pow10(n - 1)

\* Quantities are held in units of 1/QScale.
QScale == Pow10(QDigits)

RECURSIVE Repeat(_, _)
Repeat(x, n) == IF n = 0 THEN <<>> ELSE <<x>> \o Repeat(x, n - 1)

\* 24 hourly closes: none (call failed), rising, falling, flat.
KlineInputs ==
    { <<>>,
      Repeat(104, 18) \o Repeat(107, 6),
      Repeat(103, 18) \o Repeat(100, 6),
      Repeat(100, 24) }

\* What the analyze() of an agent that is not a SimpleBot may do.
OtherInputs ==
    {[raised |-> TRUE, action |-> "waiting", quantity |-> 0]}
        \cup {[raised |-> FALSE, action |-> a, quantity |-> IF a = "waiting" THEN 0 ELSE QScale] :
                a \in {"waiting", "buy", "sell"}}

\* ---------------------------------------------------------------- state
VARIABLES
    bots,              \* BotManager.bots
    running,           \* BotManager.running
    update_thread,     \* BotManager.update_thread
    lock,              \* holder of BotManager.lock
    current_position,  \* BaseBot.current_position of each agent
    spawned,           \* Thread objects created so far
    tpc,               \* where each cycle thread is in _run
    tidx,              \* agents the thread's for-loop has finished in this pass
    tact,              \* (action, quantity) returned by analyze, while executing it
    passLen,           \* len(bots) when the thread's current pass began
    passErr,           \* index of the first agent whose step failed in this pass
    cpc,               \* where each caller is in the method it called
    cbot,              \* add_bot's argument
    cthr,              \* the thread stop() joins
    cidx,              \* agents get_bot_statuses has iterated
    cstat,             \* get_bot_statuses' list under construction
    symbols,           \* SymbolManager.symbols of the InstantBuyBot's symbol manager
    ib_position,       \* InstantBuyBot.position
    ib_trade_history,  \* InstantBuyBot.trade_history
    tb_running,        \* TradingBot.running
    tb_current_position, \* TradingBot.current_position
    tb_trade_history,  \* TradingBot.trade_history
    lastQuantity,      \* the calculate_quantity call of the step just taken
    refresh_pc,        \* where the thread calling SymbolManager.refresh_symbols is
    exchange_info,     \* refresh_symbols' local exchange_info
    cache_before,      \* SymbolManager.symbols when the refresh began
    now,               \* datetime.now(), in hours since the PortfolioBot was constructed
    portfolio_history, \* PortfolioBot.portfolio_history
    last_rebalance,    \* PortfolioBot.last_rebalance
    rebalances,        \* the times at which _rebalance_portfolio was invoked
    lastYesterday,     \* what _get_value_24h_ago returned in the step just taken
    lastValuation,     \* the get_portfolio_value call of the step just taken
    lastExposure,      \* the _rebalance_portfolio call of the step just taken
    lastOrder,         \* the order placement of the step just taken
    lastReturn,        \* the call that returned in the step just taken
    stopReturned       \* a stop() call has returned; no start() call was running then or began since

vars ==
    <<bots, running, update_thread, lock, current_position, spawned, tpc, tidx,
      tact, passLen, passErr, cpc, cbot, cthr, cidx, cstat, symbols, ib_position,
      ib_trade_history, tb_running, tb_current_position, tb_trade_history,
      lastQuantity, refresh_pc, exchange_info, cache_before, now, portfolio_history,
      last_rebalance, rebalances, lastYesterday, lastValuation, lastExposure, lastOrder,
      lastReturn, stopReturned>>

threadVars == <<tpc, tidx, tact, passLen, passErr>>
callerVars == <<cpc, cbot, cthr, cidx, cstat>>
managerVars ==
    <<bots, running, update_thread, lock, current_position, spawned, threadVars,
      callerVars, stopReturned>>
cacheVars == <<refresh_pc, exchange_info, cache_before>>
\* The state outside the manager and its agents' objects.
portfolioVars ==
    <<now, portfolio_history, last_rebalance, rebalances, lastYesterday, lastValuation,
      lastExposure>>
serviceVars == <<cacheVars, portfolioVars>>
agentVars ==
    <<symbols, ib_position, ib_trade_history, tb_running, tb_current_position,
      tb_trade_history, lastQuantity, serviceVars>>

Free == [thread |-> NoThread, caller |-> ""]
HeldByThread(t) == [thread |-> t, caller |-> ""]
HeldByCaller(c) == [thread |-> NoThread, caller |-> c]

NoReturn == [caller |-> "", op |-> "", arg |-> "", value |-> ""]
Return(c, op, arg, v) == [caller |-> c, op |-> op, arg |-> arg, value |-> v]

\* The cache entry of the agents' symbol once SymbolManager is constructed:
\* absent (the refresh failed), LOT_SIZE with a step of 0.01, no LOT_SIZE filter
\* (the default step 0.00000001); minNotional 10 (the default) or 100.
SymbolCaches ==
    { [built |-> TRUE, present |-> FALSE, stepDigits |-> 0, minNotional |-> 0],
      [built |-> TRUE, present |-> TRUE, stepDigits |-> 2, minNotional |-> 10],
      [built |-> TRUE, present |-> TRUE, stepDigits |-> 2, minNotional |-> 100],
      [built |-> TRUE, present |-> TRUE, stepDigits |-> 8, minNotional |-> 10] }
\* No stand-alone agent, and so no SymbolManager, was constructed yet.
NotBuilt == [built |-> FALSE, present |-> FALSE, stepDigits |-> 0, minNotional |-> 0]
\* The cache of a constructed SymbolManager without the agents' symbol.
Absent == [built |-> TRUE, present |-> FALSE, stepDigits |-> 0, minNotional |-> 0]

\* What refresh_symbols gets: get_exchange_info raises BinanceAPIException or
\* another exception, or returns the symbols; the entry of the agents' symbol
\* then lacks a key (malformed) or gives a cache entry.
NoExchangeInfo == [k |-> "", cache |-> NotBuilt]
RefreshInputs ==
    {[k |-> kk, cache |-> NotBuilt] : kk \in {"api_error", "error", "malformed"}}
        \cup {[k |-> "ok", cache |-> c] : c \in SymbolCaches}

TbNone == [open |-> FALSE, quantity |-> 0, entry_price |-> 0, value |-> 0]
TbPosition(q, p, v) == [open |-> TRUE, quantity |-> q, entry_price |-> p, value |-> v]

None == [open |-> FALSE, quantity |-> 0, price |-> 0]
Position(q, p) == [open |-> TRUE, quantity |-> q, price |-> p]
NoAction == [action |-> "waiting", quantity |-> 0]
NoOrder ==
    [bot |-> "", side |-> "", quantity |-> 0, accepted |-> FALSE, before |-> None,
     history |-> <<>>]
NoQuantity ==
    [called |-> FALSE, info |-> NotBuilt, price |-> 0, quote_amount |-> 0,
     ok |-> FALSE, quantity |-> 0]

ManagerInit ==
    /\ bots = <<>>
    /\ running = FALSE
    /\ update_thread = NoThread
    /\ lock = Free
    /\ current_position = [b \in Bots |-> None]
    /\ spawned = 0
    /\ tpc = [t \in Threads |-> "none"]
    /\ tidx = [t \in Threads |-> 0]
    /\ tact = [t \in Threads |-> NoAction]
    /\ passLen = [t \in Threads |-> 0]
    /\ passErr = [t \in Threads |-> 0]
    /\ cpc = [c \in Callers |-> "idle"]
    /\ cbot = [c \in Callers |-> ""]
    /\ cthr = [c \in Callers |-> NoThread]
    /\ cidx = [c \in Callers |-> 0]
    /\ cstat = [c \in Callers |-> <<>>]
    /\ stopReturned = FALSE

\* ---------------------------------------------------------------- PortfolioBot (state)
\* The clock counts whole hours; the PortfolioBot is constructed at hour 0.
\* Latest hour the clock reaches where the value history is followed.
MaxClock == 27
\* Latest hour the clock reaches where the rebalancing is followed.
MaxRebalanceClock == 12
\* Snapshots get_portfolio_value may append in one behaviour.
MaxSnapshots == 2

\* timedelta(hours=24), timedelta(hours=2), timedelta(hours=4) and
\* timedelta(days=7), in hours.
DayHours == 24
ToleranceHours == 2
RebalanceHours == 4
WeekHours == 168

\* PortfolioBot(client, total_funds=15000.0)
total_funds == 15000

\* get_symbol_ticker(symbol=asset + "USDT") for the assets other than USDT.
PricedAssets == {"BTC", "ETH"}
NoPrices == [a \in PricedAssets |-> [ok |-> FALSE, price |-> 0]]

\* for balance in account['balances']: the sum of total * price over the
\* balances with total > 0, USDT at 1.0, an asset whose ticker call raises
\* being skipped.
RECURSIVE holdings_value(_, _)
holdings_value(balances, prices) ==
    IF balances = <<>> THEN 0
    ELSE LET balance == Head(balances)
             total == balance.free + balance.locked
             rest == holdings_value(Tail(balances), prices)
         IN  IF total <= 0 THEN rest
             ELSE IF balance.asset = "USDT" THEN total * 1 + rest
             ELSE IF ~prices[balance.asset].ok THEN rest
             ELSE total * prices[balance.asset].price + rest

\* total_value as get_portfolio_value returns it: the holdings, and then
\* "Add USDT balance": the free amount of the first USDT entry.
usdt_balance(balances) ==
    LET usdt == CHOOSE i \in DOMAIN balances :
                    /\ balances[i].asset = "USDT"
                    /\ \A j \in 1..(i - 1) : balances[j].asset # "USDT"
    IN  balances[usdt].free

total_value(balances, prices) == holdings_value(balances, prices) + usdt_balance(balances)

\* What a valuation reads: ok is FALSE when it raises (get_account fails, or
\* next() finds no USDT entry) and the fallback is returned.
Account(got, balances, prices) ==
    LET ok == got /\ \E i \in DOMAIN balances : balances[i].asset = "USDT"
    IN  [ok |-> ok, total |-> IF ok THEN total_value(balances, prices) ELSE total_funds,
         balances |-> balances, prices |-> prices]

\* Accounts holding USDT only, which get_portfolio_value values at 100 and
\* 110, and a get_account call that raises.
AccountInputs ==
    { Account(TRUE, <<[asset |-> "USDT", free |-> 50, locked |-> 0]>>, NoPrices),
      Account(TRUE, <<[asset |-> "USDT", free |-> 50, locked |-> 10]>>, NoPrices),
      Account(FALSE, <<>>, NoPrices) }

\* Accounts with several assets, free and locked amounts, an empty balance,
\* and tickers that answer or raise.
ValuationInputs ==
    { Account(TRUE, b, p) :
        b \in { <<[asset |-> "USDT", free |-> 50, locked |-> 0]>>,
                <<[asset |-> "BTC", free |-> 1, locked |-> 1],
                  [asset |-> "USDT", free |-> 0, locked |-> 0]>>,
                <<[asset |-> "USDT", free |-> 10, locked |-> 5],
                  [asset |-> "BTC", free |-> 2, locked |-> 0],
                  [asset |-> "ETH", free |-> 0, locked |-> 0]>>,
                <<[asset |-> "BTC", free |-> 1, locked |-> 0],
                  [asset |-> "ETH", free |-> 3, locked |-> 0],
                  [asset |-> "USDT", free |-> 0, locked |-> 7]>> },
        p \in [PricedAssets -> TickerInputs] }
        \cup {Account(FALSE, <<>>, NoPrices)}

\* Accounts whose crypto holdings are none, a small or a large part of their
\* value, and small or large against total_funds.
ExposureInputs ==
    { Account(TRUE, <<[asset |-> "USDT", free |-> u, locked |-> 0],
                      [asset |-> "BTC", free |-> q, locked |-> 0]>>,
              [NoPrices EXCEPT !["BTC"] = [ok |-> TRUE, price |-> 100]]) :
        u \in {0, 5000}, q \in {0, 2, 50, 130} }
        \cup {Account(FALSE, <<>>, NoPrices)}

\* PortfolioBot._rebalance_portfolio(portfolio): what it logs, "over" for
\* "Crypto exposure too high", "under" for "Crypto exposure too low".  The
\* fallback portfolio of a failed valuation has no holdings.
_rebalance_portfolio(acct) ==
    LET crypto_value ==
            IF acct.ok
            THEN holdings_value(SelectSeq(acct.balances, LAMBDA b : b.asset # "USDT"),
                                acct.prices)
            ELSE 0
    IN  IF crypto_value * 10 > total_funds * 8 THEN "over"
        ELSE IF crypto_value * 10 < total_funds * 2 THEN "under"
        ELSE ""

\* A call of _rebalance_portfolio with the portfolio it was given (total_value
\* and usdt_balance as get_portfolio_value returned them) and what it logged.
Exposure(acct) ==
    [called |-> TRUE, total_value |-> acct.total,
     usdt_balance |-> IF acct.ok THEN usdt_balance(acct.balances) ELSE total_funds,
     flag |-> _rebalance_portfolio(acct)]
\* No call of _rebalance_portfolio in the step.
NoExposure == [called |-> FALSE, total_value |-> 0, usdt_balance |-> 0, flag |-> ""]

\* Hours that pass while _rebalance_portfolio runs.
Elapsed == {0, 1}

\* _get_value_24h_ago returning None.
Unavailable == [found |-> FALSE, value |-> 0]
\* No call of get_portfolio_value in the step.
NoValuation ==
    [called |-> FALSE, ok |-> FALSE, total |-> 0, balances |-> <<>>, prices |-> NoPrices]
\* No call of _get_value_24h_ago in the step.
NotAsked == [called |-> FALSE, history |-> <<>>, at |-> 0, found |-> FALSE, value |-> 0]

\* PortfolioBot.__init__
PortfolioInit ==
    /\ now = 0
    /\ portfolio_history = <<>>
    /\ last_rebalance = 0
    /\ rebalances = <<>>
    /\ lastYesterday = NotAsked
    /\ lastValuation = NoValuation
    /\ lastExposure = NoExposure

AgentsInit ==
    /\ symbols = NotBuilt
    /\ ib_position = None
    /\ ib_trade_history = <<>>
    /\ tb_running = FALSE
    /\ tb_current_position = TbNone
    /\ tb_trade_history = <<>>
    /\ lastQuantity = NoQuantity
    /\ refresh_pc = "idle"
    /\ exchange_info = NoExchangeInfo
    /\ cache_before = NotBuilt
    /\ PortfolioInit

Init ==
    /\ ManagerInit
    /\ AgentsInit
    /\ lastOrder = NoOrder
    /\ lastReturn = NoReturn

\* ---------------------------------------------------------------- agents
\* BaseBot.get_current_price: the ticker price, 0.0 when the call raises.
get_current_price(tk) == IF tk.ok THEN tk.price ELSE 0

RECURSIVE Sum(_)
Sum(s) == IF s = <<>> THEN 0 ELSE Head(s) + Sum(Tail(s))

\* prices[-n:]
LastN(s, n) == IF Len(s) <= n THEN s ELSE SubSeq(s, Len(s) - n + 1, Len(s))

\* np.mean(a) < np.mean(b), for non-empty a and b
MeanLess(a, b) == Sum(a) * Len(b) < Sum(b) * Len(a)

\* len(str(step_size).split('.')[-1].rstrip('0')) for step_size = 10^-d:
\* str() switches to '1e-05' from five decimals on.
precision(d) == IF d <= 4 THEN d ELSE 5

\* round(quantity, p): to the nearest multiple of 10^-p, ties to even.
round(q, p) ==
    IF p >= QDigits THEN q
    ELSE LET u == Pow10(QDigits - p)
             r == q % u
             lo == q - r
         IN  IF 2 * r < u THEN lo
             ELSE IF 2 * r > u THEN lo + u
             ELSE IF (lo \div u) % 2 = 0 THEN lo ELSE lo + u

Waiting == [raised |-> FALSE, action |-> "waiting", quantity |-> 0]
Buy(q) == [raised |-> FALSE, action |-> "buy", quantity |-> q]
Sell(q) == [raised |-> FALSE, action |-> "sell", quantity |-> q]

\* SimpleBot.analyze with the entry check left out.
simple_analyze_no_position_check(pos, tk, kl, info) ==
    LET current_price == get_current_price(tk)
        short == LastN(kl, 6)
        raw == (investment_amount * QScale) \div current_price
        quantity == IF info.k = "step" THEN round(raw, precision(info.d)) ELSE raw
    IN  IF current_price = 0 \/ kl = <<>> \/ info.k = "raise" THEN Waiting
        ELSE IF MeanLess(kl, short) /\ current_price * Len(kl) < Sum(kl)
        THEN Buy(quantity)
        ELSE Waiting

\* SimpleBot.analyze selling the quantity computed from the investment amount.
simple_analyze_sells_computed(pos, tk, kl, info) ==
    LET current_price == get_current_price(tk)
        short == LastN(kl, 6)
        raw == (investment_amount * QScale) \div current_price
        quantity == IF info.k = "step" THEN round(raw, precision(info.d)) ELSE raw
    IN  IF current_price = 0 \/ kl = <<>> \/ info.k = "raise" THEN Waiting
        ELSE IF pos.open
        THEN IF \/ current_price * 100 >= pos.price * profit_target
                \/ current_price * 100 <= pos.price * stop_loss
                \/ MeanLess(short, kl)
             THEN Sell(quantity)
             ELSE Waiting
        ELSE IF MeanLess(kl, short) /\ current_price * Len(kl) < Sum(kl)
        THEN Buy(quantity)
        ELSE Waiting

\* SimpleBot.analyze checking for a price of 0 only when it holds no position.
simple_analyze_exits_without_price(pos, tk, kl, info) ==
    LET current_price == get_current_price(tk)
        short == LastN(kl, 6)
        raw == (investment_amount * QScale) \div current_price
        quantity == IF info.k = "step" THEN round(raw, precision(info.d)) ELSE raw
    IN  IF current_price = 0 /\ ~pos.open THEN Waiting
        ELSE IF kl = <<>> THEN Waiting
        ELSE IF info.k = "raise" THEN Waiting
        ELSE IF pos.open
        THEN IF current_price * 100 >= pos.price * profit_target THEN Sell(pos.quantity)
             ELSE IF current_price * 100 <= pos.price * stop_loss THEN Sell(pos.quantity)
             ELSE IF MeanLess(short, kl) THEN Sell(pos.quantity)
             ELSE Waiting
        ELSE IF MeanLess(kl, short) /\ current_price * Len(kl) < Sum(kl)
        THEN Buy(quantity)
        ELSE Waiting

\* SimpleBot.analyze
simple_analyze(pos, tk, kl, info) ==
    LET current_price == get_current_price(tk)
        short == LastN(kl, 6)
        raw == (investment_amount * QScale) \div current_price
        quantity == IF info.k = "step" THEN round(raw, precision(info.d)) ELSE raw
    IN  IF current_price = 0 THEN Waiting
        ELSE IF kl = <<>> THEN Waiting
        ELSE IF info.k = "raise" THEN Waiting
        ELSE IF pos.open
        THEN IF current_price * 100 >= pos.price * profit_target THEN Sell(pos.quantity)
             ELSE IF current_price * 100 <= pos.price * stop_loss THEN Sell(pos.quantity)
             ELSE IF MeanLess(short, kl) THEN Sell(pos.quantity)
             ELSE Waiting
        ELSE IF MeanLess(kl, short) /\ current_price * Len(kl) < Sum(kl)
        THEN Buy(quantity)
        ELSE Waiting

\* _execute_buy that records the position whatever the order's result.
execute_buy_unchecked(pos, quantity, ord, tk) ==
    IF ~tk.ok THEN pos ELSE Position(quantity, tk.price)

\* _execute_sell that clears the position whatever the order's result.
execute_sell_unchecked(pos, quantity, ord, tk) ==
    IF ~tk.ok THEN pos ELSE None

\* BotManager._execute_buy: the agent's position afterwards.
execute_buy(pos, quantity, ord, tk) ==
    IF ord # "ok" THEN pos
    ELSE IF ~tk.ok THEN pos
    ELSE Position(quantity, tk.price)

\* BotManager._execute_sell: the agent's position afterwards.
execute_sell(pos, quantity, ord, tk) ==
    IF ord # "ok" THEN pos
    ELSE IF ~tk.ok THEN pos
    ELSE IF pos.open /\ pos.price = 0 THEN pos
    ELSE None

\* ---------------------------------------------------------------- _run
\* _run looping whatever the running flag.
run_while_forever(t) ==
    /\ tpc[t] \in {"while"}
    /\ tpc' = [tpc EXCEPT ![t] = "lock"]
    /\ lastOrder' = NoOrder
    /\ lastReturn' = NoReturn
    /\ UNCHANGED <<agentVars, bots, running, update_thread, lock, current_position, spawned,
                   tidx, tact, passLen, passErr, callerVars, stopReturned>>

\* while self.running:
run_while(t) ==
    /\ tpc[t] \in {"while"}
    /\ tpc' = [tpc EXCEPT ![t] = IF running THEN "lock" ELSE "dead"]
    /\ lastOrder' = NoOrder
    /\ lastReturn' = NoReturn
    /\ UNCHANGED <<agentVars, bots, running, update_thread, lock, current_position, spawned,
                   tidx, tact, passLen, passErr, callerVars, stopReturned>>

\* with self.lock: for bot in self.bots:
run_acquire(t) ==
    /\ tpc[t] = "lock"
    /\ lock = Free
    /\ lock' = HeldByThread(t)
    /\ tpc' = [tpc EXCEPT ![t] = "for"]
    /\ tidx' = [tidx EXCEPT ![t] = 0]
    /\ passLen' = [passLen EXCEPT ![t] = Len(bots)]
    /\ passErr' = [passErr EXCEPT ![t] = 0]
    /\ lastOrder' = NoOrder
    /\ lastReturn' = NoReturn
    /\ UNCHANGED <<agentVars, bots, running, update_thread, current_position, spawned, tact,
                   callerVars, stopReturned>>

NoteErr(t) == [passErr EXCEPT ![t] = IF @ = 0 THEN tidx[t] + 1 ELSE @]

\* An exception escaping the step ends the pass (handled by the outer except).
bot_raised_abort(t) ==
    /\ tpc' = [tpc EXCEPT ![t] = "sleep"]
    /\ lock' = Free
    /\ tidx' = tidx

\* An exception escaping the step ends _run.
bot_raised_ends_loop(t) ==
    /\ tpc' = [tpc EXCEPT ![t] = "dead"]
    /\ lock' = Free
    /\ tidx' = tidx

\* except Exception inside the for-loop: log, go on with the next agent.
bot_raised(t) ==
    /\ tpc' = tpc
    /\ lock' = lock
    /\ tidx' = [tidx EXCEPT ![t] = @ + 1]

\* action, quantity = bot.analyze(), r being what analyze() does
run_step(t, r) ==
    /\ IF r.raised
       THEN /\ bot_raised(t)
            /\ passErr' = NoteErr(t)
            /\ tact' = tact
       ELSE IF r.action \in {"buy", "sell"}
       THEN /\ tpc' = [tpc EXCEPT ![t] = "exec"]
            /\ tact' = [tact EXCEPT ![t] = [action |-> r.action, quantity |-> r.quantity]]
            /\ UNCHANGED <<lock, tidx, passErr>>
       ELSE /\ tidx' = [tidx EXCEPT ![t] = @ + 1]
            /\ UNCHANGED <<tpc, lock, tact, passErr>>
    /\ lastOrder' = NoOrder
    /\ lastReturn' = NoReturn
    /\ UNCHANGED <<agentVars, bots, running, update_thread, current_position, spawned, passLen,
                   callerVars, stopReturned>>

\* the next agent of the for-loop is a SimpleBot
run_analyze_simple(t, tk, kl, info) ==
    /\ tpc[t] = "for"
    /\ tidx[t] < Len(bots)
    /\ kind(bots[tidx[t] + 1]) = "SimpleBot"
    /\ run_step(t, simple_analyze(current_position[bots[tidx[t] + 1]], tk, kl, info))

\* the next agent of the for-loop is another BaseBot subclass
run_analyze_other(t, oth) ==
    /\ tpc[t] = "for"
    /\ tidx[t] < Len(bots)
    /\ kind(bots[tidx[t] + 1]) # "SimpleBot"
    /\ run_step(t, oth)

\* _execute_buy / _execute_sell submitting the order again when it failed.
run_execute_retrying(t, ord, tk) ==
    /\ tpc[t] = "exec"
    /\ LET b == bots[tidx[t] + 1]
           pos == current_position[b]
           q == tact[t].quantity
           new == IF tact[t].action = "buy" THEN execute_buy(pos, q, ord, tk)
                  ELSE execute_sell(pos, q, ord, tk)
       IN  /\ current_position' = [current_position EXCEPT ![b] = new]
           /\ lastOrder' = [bot |-> b,
                            side |-> IF tact[t].action = "buy" THEN "BUY" ELSE "SELL",
                            quantity |-> q, accepted |-> (ord = "ok"), before |-> pos,
                            history |-> <<>>]
           /\ passErr' = IF ord = "ok" /\ tk.ok THEN passErr ELSE NoteErr(t)
    /\ tpc' = [tpc EXCEPT ![t] = IF ord = "ok" THEN "for" ELSE "exec"]
    /\ tidx' = [tidx EXCEPT ![t] = IF ord = "ok" THEN @ + 1 ELSE @]
    /\ tact' = [tact EXCEPT ![t] = IF ord = "ok" THEN NoAction ELSE @]
    /\ lastReturn' = NoReturn
    /\ UNCHANGED <<agentVars, bots, running, update_thread, lock, spawned, passLen, callerVars,
                   stopReturned>>

\* self._execute_buy(bot, quantity) / self._execute_sell(bot, quantity)
run_execute(t, ord, tk) ==
    /\ tpc[t] = "exec"
    /\ LET b == bots[tidx[t] + 1]
           pos == current_position[b]
           q == tact[t].quantity
           new == IF tact[t].action = "buy" THEN execute_buy(pos, q, ord, tk)
                  ELSE execute_sell(pos, q, ord, tk)
       IN  /\ current_position' = [current_position EXCEPT ![b] = new]
           /\ lastOrder' = [bot |-> b,
                            side |-> IF tact[t].action = "buy" THEN "BUY" ELSE "SELL",
                            quantity |-> q, accepted |-> (ord = "ok"), before |-> pos,
                            history |-> <<>>]
           /\ passErr' = IF ord = "ok" /\ tk.ok THEN passErr ELSE NoteErr(t)
    /\ tpc' = [tpc EXCEPT ![t] = "for"]
    /\ tidx' = [tidx EXCEPT ![t] = @ + 1]
    /\ tact' = [tact EXCEPT ![t] = NoAction]
    /\ lastReturn' = NoReturn
    /\ UNCHANGED <<agentVars, bots, running, update_thread, lock, spawned, passLen, callerVars,
                   stopReturned>>

\* a gateway call made inside the step of the current agent (by analyze, or by
\* _execute_buy / _execute_sell) never returns: no call carries a timeout
run_hang(t) ==
    /\ \/ tpc[t] = "for" /\ tidx[t] < Len(bots)
       \/ tpc[t] = "exec"
    /\ tpc' = [tpc EXCEPT ![t] = "hung"]
    /\ lastOrder' = NoOrder
    /\ lastReturn' = NoReturn
    /\ UNCHANGED <<agentVars, bots, running, update_thread, lock, current_position, spawned,
                   tidx, tact, passLen, passErr, callerVars, stopReturned>>

\* the pass ends and the thread sleeps without releasing the lock.
run_end_pass_keeping_lock(t) ==
    /\ tpc[t] = "for"
    /\ tidx[t] >= Len(bots)
    /\ tpc' = [tpc EXCEPT ![t] = "sleep"]
    /\ lastOrder' = NoOrder
    /\ lastReturn' = NoReturn
    /\ UNCHANGED <<agentVars, bots, running, update_thread, lock, current_position, spawned,
                   tidx, tact, passLen, passErr, callerVars, stopReturned>>

\* the for-loop is exhausted: leave the with-block, time.sleep(60)
run_end_pass(t) ==
    /\ tpc[t] = "for"
    /\ tidx[t] >= Len(bots)
    /\ lock' = Free
    /\ tpc' = [tpc EXCEPT ![t] = "sleep"]
    /\ lastOrder' = NoOrder
    /\ lastReturn' = NoReturn
    /\ UNCHANGED <<agentVars, bots, running, update_thread, current_position, spawned, tidx,
                   tact, passLen, passErr, callerVars, stopReturned>>

\* time.sleep(60) returns
run_wake(t) ==
    /\ tpc[t] = "sleep"
    /\ tpc' = [tpc EXCEPT ![t] = "while"]
    /\ tidx' = [tidx EXCEPT ![t] = 0]
    /\ passLen' = [passLen EXCEPT ![t] = 0]
    /\ passErr' = [passErr EXCEPT ![t] = 0]
    /\ lastOrder' = NoOrder
    /\ lastReturn' = NoReturn
    /\ UNCHANGED <<agentVars, bots, running, update_thread, lock, current_position, spawned,
                   tact, callerVars, stopReturned>>

\* ---------------------------------------------------------------- start / stop
Starting == {c \in Callers : cpc[c] \in {"start_set", "start_assign"}}

\* stopReturned once a stop() call returns: it is not noted while another
\* thread is inside start().
StopHasReturned == \A c \in Callers : cpc[c] \notin {"start_set", "start_assign", "start_run"}

\* start(): if not self.running:
start_check(c) ==
    /\ cpc[c] = "idle"
    /\ spawned + Cardinality(Starting) < MaxSpawn
    /\ cpc' = [cpc EXCEPT ![c] = IF running THEN "idle" ELSE "start_set"]
    /\ lastReturn' = IF running THEN Return(c, "start", "", "None") ELSE NoReturn
    /\ stopReturned' = FALSE
    /\ lastOrder' = NoOrder
    /\ UNCHANGED <<agentVars, bots, running, update_thread, lock, current_position, spawned,
                   threadVars, cbot, cthr, cidx, cstat>>

\* self.running = True
start_set(c) ==
    /\ cpc[c] = "start_set"
    /\ running' = TRUE
    /\ cpc' = [cpc EXCEPT ![c] = "start_assign"]
    /\ lastOrder' = NoOrder
    /\ lastReturn' = NoReturn
    /\ UNCHANGED <<agentVars, bots, update_thread, lock, current_position, spawned, threadVars,
                   cbot, cthr, cidx, cstat, stopReturned>>

\* self.update_thread = Thread(target=self._run, daemon=True)
start_assign(c) ==
    /\ cpc[c] = "start_assign"
    /\ spawned' = spawned + 1
    /\ update_thread' = spawned + 1
    /\ tpc' = [tpc EXCEPT ![spawned + 1] = "new"]
    /\ cpc' = [cpc EXCEPT ![c] = "start_run"]
    /\ lastOrder' = NoOrder
    /\ lastReturn' = NoReturn
    /\ UNCHANGED <<agentVars, bots, running, lock, current_position, tidx, tact, passLen,
                   passErr, cbot, cthr, cidx, cstat, stopReturned>>

\* self.update_thread.start(): RuntimeError when that thread was started already
start_run(c) ==
    /\ cpc[c] = "start_run"
    /\ tpc' = [tpc EXCEPT ![update_thread] = IF @ = "new" THEN "while" ELSE @]
    /\ cpc' = [cpc EXCEPT ![c] = "idle"]
    /\ lastReturn' = Return(c, "start", "", IF tpc[update_thread] = "new" THEN "None" ELSE "raised")
    /\ lastOrder' = NoOrder
    /\ UNCHANGED <<agentVars, bots, running, update_thread, lock, current_position, spawned,
                   tidx, tact, passLen, passErr, cbot, cthr, cidx, cstat, stopReturned>>

\* stop(): if self.running:
stop_check(c) ==
    /\ cpc[c] = "idle"
    /\ cpc' = [cpc EXCEPT ![c] = IF running THEN "stop_set" ELSE "idle"]
    /\ lastReturn' = IF running THEN NoReturn ELSE Return(c, "stop", "", "None")
    /\ stopReturned' = IF running THEN stopReturned ELSE StopHasReturned
    /\ lastOrder' = NoOrder
    /\ UNCHANGED <<agentVars, bots, running, update_thread, lock, current_position, spawned,
                   threadVars, cbot, cthr, cidx, cstat>>

\* stop() closing every agent's position as it clears the flag.
stop_set_closing(c) ==
    /\ cpc[c] = "stop_set"
    /\ running' = FALSE
    /\ current_position' = [b \in Bots |-> None]
    /\ cpc' = [cpc EXCEPT ![c] = "stop_read"]
    /\ lastOrder' = NoOrder
    /\ lastReturn' = NoReturn
    /\ UNCHANGED <<agentVars, bots, update_thread, lock, spawned, threadVars,
                   cbot, cthr, cidx, cstat, stopReturned>>

\* self.running = False
stop_set(c) ==
    /\ cpc[c] = "stop_set"
    /\ running' = FALSE
    /\ cpc' = [cpc EXCEPT ![c] = "stop_read"]
    /\ lastOrder' = NoOrder
    /\ lastReturn' = NoReturn
    /\ UNCHANGED <<agentVars, bots, update_thread, lock, current_position, spawned, threadVars,
                   cbot, cthr, cidx, cstat, stopReturned>>

\* if self.update_thread: self.update_thread.join()
stop_waits_for == update_thread

stop_read(c) ==
    /\ cpc[c] = "stop_read"
    /\ cpc' = [cpc EXCEPT ![c] = IF stop_waits_for = NoThread THEN "idle" ELSE "stop_join"]
    /\ cthr' = [cthr EXCEPT ![c] = stop_waits_for]
    /\ lastReturn' = IF stop_waits_for = NoThread THEN Return(c, "stop", "", "None") ELSE NoReturn
    /\ stopReturned' = IF stop_waits_for = NoThread THEN StopHasReturned ELSE stopReturned
    /\ lastOrder' = NoOrder
    /\ UNCHANGED <<agentVars, bots, running, update_thread, lock, current_position, spawned,
                   threadVars, cbot, cidx, cstat>>

\* join() returns once the thread has ended; it raises RuntimeError for a
\* thread that was not started yet.
stop_join(c) ==
    /\ cpc[c] = "stop_join"
    /\ tpc[cthr[c]] \in {"dead", "new"}
    /\ cpc' = [cpc EXCEPT ![c] = "idle"]
    /\ cthr' = [cthr EXCEPT ![c] = NoThread]
    /\ lastReturn' = Return(c, "stop", "", IF tpc[cthr[c]] = "dead" THEN "None" ELSE "raised")
    /\ stopReturned' = IF tpc[cthr[c]] = "dead" THEN StopHasReturned ELSE stopReturned
    /\ lastOrder' = NoOrder
    /\ UNCHANGED <<agentVars, bots, running, update_thread, lock, current_position, spawned,
                   threadVars, cbot, cidx, cstat>>

\* ---------------------------------------------------------------- add_bot
\* any(b.symbol == bot.symbol for b in self.bots)
duplicate_symbol(b) == \E i \in 1..Len(bots) : symbol(bots[i]) = symbol(b)

\* add_bot without the duplicate check.
add_bot_accepts_any(b) == has_required_attributes(b)

\* add_bot reaches self.bots.append(bot)
add_bot_accepts(b) == has_required_attributes(b) /\ ~duplicate_symbol(b)

\* add_bot(bot) up to the append
add_bot_check(c, b) ==
    /\ cpc[c] = "idle"
    /\ cbot' = [cbot EXCEPT ![c] = IF add_bot_accepts(b) THEN b ELSE ""]
    /\ cpc' = [cpc EXCEPT ![c] = IF add_bot_accepts(b) THEN "add_append" ELSE "idle"]
    /\ lastReturn' = IF add_bot_accepts(b) THEN NoReturn ELSE Return(c, "add_bot", b, "False")
    /\ lastOrder' = NoOrder
    /\ UNCHANGED <<agentVars, bots, running, update_thread, lock, current_position, spawned,
                   threadVars, cthr, cidx, cstat, stopReturned>>

\* self.bots.append(bot); return True
add_bot_append(c) ==
    /\ cpc[c] = "add_append"
    /\ bots' = Append(bots, cbot[c])
    /\ cpc' = [cpc EXCEPT ![c] = "idle"]
    /\ cbot' = [cbot EXCEPT ![c] = ""]
    /\ lastReturn' = Return(c, "add_bot", cbot[c], "True")
    /\ lastOrder' = NoOrder
    /\ UNCHANGED <<agentVars, running, update_thread, lock, current_position, spawned,
                   threadVars, cthr, cidx, cstat, stopReturned>>

\* ---------------------------------------------------------------- get_bot_statuses
\* get_bot_statuses entering its loop without waiting for the lock.
statuses_acquire_unlocked(c) ==
    /\ cpc[c] = "idle"
    /\ lock' = HeldByCaller(c)
    /\ cpc' = [cpc EXCEPT ![c] = "stat_for"]
    /\ cidx' = [cidx EXCEPT ![c] = 0]
    /\ cstat' = [cstat EXCEPT ![c] = <<>>]
    /\ lastOrder' = NoOrder
    /\ lastReturn' = NoReturn
    /\ UNCHANGED <<agentVars, bots, running, update_thread, current_position, spawned,
                   threadVars, cbot, cthr, stopReturned>>

\* get_bot_statuses() called while the lock is held: the caller blocks.
statuses_block(c) ==
    /\ cpc[c] = "idle"
    /\ lock # Free
    /\ cpc' = [cpc EXCEPT ![c] = "stat_lock"]
    /\ lastOrder' = NoOrder
    /\ lastReturn' = NoReturn
    /\ UNCHANGED <<agentVars, bots, running, update_thread, lock, current_position, spawned,
                   threadVars, cbot, cthr, cidx, cstat, stopReturned>>

\* get_bot_statuses(): with self.lock: (blocks until the lock is free)
statuses_acquire(c) ==
    /\ cpc[c] \in {"idle", "stat_lock"}
    /\ lock = Free
    /\ lock' = HeldByCaller(c)
    /\ cpc' = [cpc EXCEPT ![c] = "stat_for"]
    /\ cidx' = [cidx EXCEPT ![c] = 0]
    /\ cstat' = [cstat EXCEPT ![c] = <<>>]
    /\ lastOrder' = NoOrder
    /\ lastReturn' = NoReturn
    /\ UNCHANGED <<agentVars, bots, running, update_thread, current_position, spawned,
                   threadVars, cbot, cthr, stopReturned>>

\* The status of one agent; <<>> when building it raises (division by a zero
\* entry value).
bot_status(b, pos, tk) ==
    IF pos.open /\ pos.quantity * pos.price = 0 THEN <<>>
    ELSE << [symbol |-> symbol(b), current_price |-> get_current_price(tk),
             position |-> pos, is_running |-> running] >>

\* one iteration of: for bot in self.bots
statuses_next(c, tk) ==
    /\ cpc[c] = "stat_for"
    /\ cidx[c] < Len(bots)
    /\ LET b == bots[cidx[c] + 1]
       IN  cstat' = [cstat EXCEPT ![c] = @ \o bot_status(b, current_position[b], tk)]
    /\ cidx' = [cidx EXCEPT ![c] = @ + 1]
    /\ lastOrder' = NoOrder
    /\ lastReturn' = NoReturn
    /\ UNCHANGED <<agentVars, bots, running, update_thread, lock, current_position, spawned,
                   threadVars, cpc, cbot, cthr, stopReturned>>

\* get_bot_statuses closing every position as it returns.
statuses_return_closing(c) ==
    /\ cpc[c] = "stat_for"
    /\ cidx[c] >= Len(bots)
    /\ lock' = Free
    /\ cpc' = [cpc EXCEPT ![c] = "idle"]
    /\ cidx' = [cidx EXCEPT ![c] = 0]
    /\ cstat' = [cstat EXCEPT ![c] = <<>>]
    /\ current_position' = [b \in Bots |-> None]
    /\ lastReturn' = Return(c, "get_bot_statuses", "", "list")
    /\ lastOrder' = NoOrder
    /\ UNCHANGED <<agentVars, bots, running, update_thread, spawned,
                   threadVars, cbot, cthr, stopReturned>>

\* return statuses
statuses_return(c) ==
    /\ cpc[c] = "stat_for"
    /\ cidx[c] >= Len(bots)
    /\ lock' = Free
    /\ cpc' = [cpc EXCEPT ![c] = "idle"]
    /\ cidx' = [cidx EXCEPT ![c] = 0]
    /\ cstat' = [cstat EXCEPT ![c] = <<>>]
    /\ lastReturn' = Return(c, "get_bot_statuses", "", "list")
    /\ lastOrder' = NoOrder
    /\ UNCHANGED <<agentVars, bots, running, update_thread, current_position, spawned,
                   threadVars, cbot, cthr, stopReturned>>

\* ---------------------------------------------------------------- SymbolManager
\* SymbolManager.get_quantity_precision: str(step_size)[::-1].find('.'), where
\* str() gives '1.0' for a step of 1 and '1e-05' from five decimals on.
get_quantity_precision(info) ==
    IF ~info.present THEN 8
    ELSE IF info.stepDigits = 0 THEN 1
    ELSE IF info.stepDigits <= 4 THEN info.stepDigits
    ELSE 0

\* The step size in units of 1/QScale (1 when it is finer than the model keeps).
StepUnits(d) == IF d <= QDigits THEN Pow10(QDigits - d) ELSE 1

Failed == [ok |-> FALSE, quantity |-> 0]

\* calculate_quantity up to the MIN_NOTIONAL check: the quantity for a cached
\* symbol at a price.
quantized(info, price, quote_amount) ==
    LET raw == (quote_amount * QScale) \div price
        step == StepUnits(info.stepDigits)
        floored == (raw \div step) * step
    IN  round(floored, get_quantity_precision(info))

\* calculate_quantity without the MIN_NOTIONAL check.
calculate_quantity_any_notional(info, tk, quote_amount) ==
    IF ~info.present \/ ~tk.ok THEN Failed
    ELSE [ok |-> TRUE, quantity |-> quantized(info, tk.price, quote_amount)]

\* SymbolManager.calculate_quantity: ok is FALSE where it returns None.
calculate_quantity(info, tk, quote_amount) ==
    IF ~info.present THEN Failed
    ELSE IF ~tk.ok THEN Failed
    ELSE LET quantity == quantized(info, tk.price, quote_amount)
         IN  IF quantity * tk.price < info.minNotional * QScale THEN Failed
             ELSE [ok |-> TRUE, quantity |-> quantity]

\* A call calculate_quantity(symbol, quote_amount) with the cache entry and the
\* ticker it read, and what it returned.
QuantityCall(info, tk, quote_amount) ==
    [called |-> TRUE, info |-> info, price |-> IF tk.ok THEN tk.price ELSE 0,
     quote_amount |-> quote_amount,
     ok |-> calculate_quantity(info, tk, quote_amount).ok,
     quantity |-> calculate_quantity(info, tk, quote_amount).quantity]

\* ---------------------------------------------------------------- refresh_symbols
\* refresh_symbols(): exchange_info = self.client.get_exchange_info()
refresh_fetch(r) ==
    /\ symbols.built
    /\ refresh_pc = "idle"
    /\ IF r.k \in {"api_error", "error"}
       THEN /\ lastReturn' = Return("", "refresh_symbols", "",
                                    IF r.k = "api_error" THEN "False" ELSE "raised")
            /\ UNCHANGED cacheVars
       ELSE /\ refresh_pc' = "clear"
            /\ exchange_info' = r
            /\ cache_before' = symbols
            /\ lastReturn' = NoReturn
    /\ lastOrder' = NoOrder
    /\ lastQuantity' = NoQuantity
    /\ UNCHANGED <<managerVars, symbols, ib_position, ib_trade_history, tb_running,
                   tb_current_position, tb_trade_history, portfolioVars>>

\* self.symbols.clear()
refresh_clear ==
    /\ refresh_pc = "clear"
    /\ symbols' = Absent
    /\ refresh_pc' = "fill"
    /\ lastOrder' = NoOrder
    /\ lastReturn' = NoReturn
    /\ lastQuantity' = NoQuantity
    /\ UNCHANGED <<managerVars, ib_position, ib_trade_history, tb_running,
                   tb_current_position, tb_trade_history, exchange_info, cache_before,
                   portfolioVars>>

\* for symbol_info in exchange_info['symbols']: self.symbols[symbol] = {...};
\* an entry lacking a key raises KeyError, which refresh_symbols does not catch.
refresh_fill ==
    /\ refresh_pc = "fill"
    /\ symbols' = IF exchange_info.k = "malformed" THEN symbols ELSE exchange_info.cache
    /\ refresh_pc' = "idle"
    /\ lastReturn' = Return("", "refresh_symbols", "",
                            IF exchange_info.k = "malformed" THEN "raised" ELSE "True")
    /\ lastOrder' = NoOrder
    /\ lastQuantity' = NoQuantity
    /\ UNCHANGED <<managerVars, ib_position, ib_trade_history, tb_running,
                   tb_current_position, tb_trade_history, exchange_info, cache_before,
                   portfolioVars>>

\* ---------------------------------------------------------------- PortfolioBot
Abs(x) == IF x < 0 THEN -x ELSE x

\* key=lambda x: abs(x[0] - target_time)
Distance(snapshot, target_time) == Abs(snapshot.t - target_time)

\* min(self.portfolio_history, key=...): the first snapshot of the list among
\* those at the least distance.
RECURSIVE closest(_, _)
closest(history, target_time) ==
    IF Len(history) = 1 THEN history[1]
    ELSE LET rest == closest(Tail(history), target_time)
         IN  IF Distance(history[1], target_time) <= Distance(rest, target_time)
             THEN history[1]
             ELSE rest

\* _get_value_24h_ago without the tolerance check.
_get_value_24h_ago_any_distance(history, t) ==
    IF history # <<>>
    THEN [found |-> TRUE, value |-> closest(history, t - DayHours).value]
    ELSE Unavailable

\* PortfolioBot._get_value_24h_ago, called at hour t.
_get_value_24h_ago(history, t) ==
    LET target_time == t - DayHours
    IN  IF history # <<>>
           /\ Distance(closest(history, target_time), target_time) <= ToleranceHours
        THEN [found |-> TRUE, value |-> closest(history, target_time).value]
        ELSE Unavailable

\* A call of _get_value_24h_ago at hour t and what it returned.
Asked(history, t) ==
    [called |-> TRUE, history |-> history, at |-> t,
     found |-> _get_value_24h_ago(history, t).found,
     value |-> _get_value_24h_ago(history, t).value]

\* get_portfolio_value at hour t: the history it leaves.  An exception of the
\* valuation is caught before anything is stored.
valued(history, t, acct) ==
    IF acct.ok
    THEN SelectSeq(Append(history, [t |-> t, value |-> acct.total]),
                   LAMBDA s : s.t > t - WeekHours)
    ELSE history

\* The rest of the model's state, which the PortfolioBot does not touch.
PortfolioFrame ==
    /\ lastOrder' = NoOrder
    /\ lastReturn' = NoReturn
    /\ lastQuantity' = NoQuantity
    /\ UNCHANGED <<managerVars, symbols, ib_position, ib_trade_history, tb_running,
                   tb_current_position, tb_trade_history, cacheVars>>

\* An hour passes.
tick(limit) ==
    /\ now < limit
    /\ now' = now + 1
    /\ lastYesterday' = NotAsked
    /\ lastValuation' = NoValuation
    /\ lastExposure' = NoExposure
    /\ UNCHANGED <<portfolio_history, last_rebalance, rebalances>>
    /\ PortfolioFrame

\* A call of _get_value_24h_ago().
call_get_value_24h_ago ==
    /\ lastYesterday' = Asked(portfolio_history, now)
    /\ lastValuation' = NoValuation
    /\ lastExposure' = NoExposure
    /\ UNCHANGED <<now, portfolio_history, last_rebalance, rebalances>>
    /\ PortfolioFrame

\* PortfolioBot.get_portfolio_value()
get_portfolio_value(acct) ==
    /\ acct.ok => Len(portfolio_history) < MaxSnapshots
    /\ portfolio_history' = valued(portfolio_history, now, acct)
    /\ lastYesterday' = IF acct.ok THEN Asked(portfolio_history, now) ELSE NotAsked
    /\ lastValuation' = [called |-> TRUE] @@ acct
    /\ lastExposure' = NoExposure
    /\ UNCHANGED <<now, last_rebalance, rebalances>>
    /\ PortfolioFrame

\* analyze_and_trade rebalancing from 4 hours on, not after more than 4.
analyze_and_trade_at_four_hours(acct, d, limit) ==
    /\ acct.ok => Len(portfolio_history) < MaxSnapshots
    /\ portfolio_history' = valued(portfolio_history, now, acct)
    /\ lastYesterday' = IF acct.ok THEN Asked(portfolio_history, now) ELSE NotAsked
    /\ lastValuation' = [called |-> TRUE] @@ acct
    /\ IF now - last_rebalance >= RebalanceHours
       THEN /\ now + d <= limit
            /\ rebalances' = Append(rebalances, now)
            /\ now' = now + d
            /\ last_rebalance' = now + d
            /\ lastExposure' = Exposure(acct)
       ELSE /\ lastExposure' = NoExposure
            /\ UNCHANGED <<now, last_rebalance, rebalances>>
    /\ PortfolioFrame

\* PortfolioBot.analyze_and_trade(); d hours pass while _rebalance_portfolio
\* runs.  _rebalance_portfolio catches its own exceptions and changes nothing.
analyze_and_trade(acct, d, limit) ==
    /\ acct.ok => Len(portfolio_history) < MaxSnapshots
    /\ portfolio_history' = valued(portfolio_history, now, acct)
    /\ lastYesterday' = IF acct.ok THEN Asked(portfolio_history, now) ELSE NotAsked
    /\ lastValuation' = [called |-> TRUE] @@ acct
    /\ IF now - last_rebalance > RebalanceHours
       THEN /\ now + d <= limit
            /\ rebalances' = Append(rebalances, now)
            /\ now' = now + d
            /\ last_rebalance' = now + d
            /\ lastExposure' = Exposure(acct)
       ELSE /\ lastExposure' = NoExposure
            /\ UNCHANGED <<now, last_rebalance, rebalances>>
    /\ PortfolioFrame

\* ---------------------------------------------------------------- InstantBuyBot
BuyRecord(q, p) == [type |-> "BUY", price |-> p, quantity |-> q, reason |-> ""]
SellRecord(q, p, reason) == [type |-> "SELL", price |-> p, quantity |-> q, reason |-> reason]

\* What an operation of an agent did: its position and trade history
\* afterwards, and the order it submitted, if any.
Outcome(pos, hist, side, q, accepted) ==
    [position |-> pos, history |-> hist, side |-> side, quantity |-> q,
     accepted |-> accepted]

\* InstantBuyBot.execute_buy
instant_execute_buy(pos, hist, info, tk, tkq, ord) ==
    LET calc == calculate_quantity(info, tkq, investment_amount)
    IN  IF ~tk.ok THEN Outcome(pos, hist, "", 0, FALSE)
        ELSE IF ~calc.ok \/ calc.quantity = 0 THEN Outcome(pos, hist, "", 0, FALSE)
        ELSE IF ord # "ok" THEN Outcome(pos, hist, "BUY", calc.quantity, FALSE)
        ELSE Outcome(Position(calc.quantity, tk.price),
                     Append(hist, BuyRecord(calc.quantity, tk.price)),
                     "BUY", calc.quantity, TRUE)

\* _execute_sell starting the trade history afresh with the SELL record.
instant_execute_sell_resetting(pos, hist, reason, ord, tk) ==
    IF ord # "ok" THEN Outcome(pos, hist, "SELL", pos.quantity, FALSE)
    ELSE IF ~tk.ok THEN Outcome(pos, hist, "SELL", pos.quantity, TRUE)
    ELSE Outcome(None, <<SellRecord(pos.quantity, tk.price, reason)>>,
                 "SELL", pos.quantity, TRUE)

\* InstantBuyBot._execute_sell
instant_execute_sell(pos, hist, reason, ord, tk) ==
    IF ord # "ok" THEN Outcome(pos, hist, "SELL", pos.quantity, FALSE)
    ELSE IF ~tk.ok THEN Outcome(pos, hist, "SELL", pos.quantity, TRUE)
    ELSE Outcome(None, Append(hist, SellRecord(pos.quantity, tk.price, reason)),
                 "SELL", pos.quantity, TRUE)

\* check_position without the stop-loss branch.
instant_check_position_no_stop_loss(pos, hist, tk, ord, tk2) ==
    IF ~pos.open THEN Outcome(pos, hist, "", 0, FALSE)
    ELSE IF ~tk.ok THEN Outcome(pos, hist, "", 0, FALSE)
    ELSE IF tk.price * 100 >= pos.price * profit_target
    THEN instant_execute_sell(pos, hist, "Take profit", ord, tk2)
    ELSE Outcome(pos, hist, "", 0, FALSE)

\* InstantBuyBot.check_position
instant_check_position(pos, hist, tk, ord, tk2) ==
    IF ~pos.open THEN Outcome(pos, hist, "", 0, FALSE)
    ELSE IF ~tk.ok THEN Outcome(pos, hist, "", 0, FALSE)
    ELSE IF tk.price * 100 >= pos.price * profit_target
    THEN instant_execute_sell(pos, hist, "Take profit", ord, tk2)
    ELSE IF tk.price * 100 <= pos.price * stop_loss
    THEN instant_execute_sell(pos, hist, "Stop loss", ord, tk2)
    ELSE Outcome(pos, hist, "", 0, FALSE)

OrderOf(b, before, hist, out) ==
    IF out.side = "" THEN NoOrder
    ELSE [bot |-> b, side |-> out.side, quantity |-> out.quantity,
          accepted |-> out.accepted, before |-> before, history |-> hist]

\* InstantBuyBot.__init__ / TradingBot.__init__: the agents are constructed,
\* and SymbolManager(client) loads its cache.
agents_init(cache) ==
    /\ ~symbols.built
    /\ symbols' = cache
    /\ lastOrder' = NoOrder
    /\ lastReturn' = NoReturn
    /\ UNCHANGED <<managerVars, ib_position, ib_trade_history, tb_running,
                   tb_current_position, tb_trade_history, lastQuantity, serviceVars>>

ib_apply(out, quant) ==
    /\ symbols.built
    /\ Len(ib_trade_history) < MaxHistory
    /\ ib_position' = out.position
    /\ ib_trade_history' = out.history
    /\ lastQuantity' = quant
    /\ lastOrder' = OrderOf("ib", ib_position, ib_trade_history, out)
    /\ lastReturn' = NoReturn
    /\ UNCHANGED <<managerVars, symbols, tb_running, tb_current_position, tb_trade_history,
                   serviceVars>>

\* a call of InstantBuyBot.execute_buy()
ib_execute_buy(tk, tkq, ord) ==
    ib_apply(instant_execute_buy(ib_position, ib_trade_history, symbols, tk, tkq, ord),
             IF tk.ok THEN QuantityCall(symbols, tkq, investment_amount) ELSE NoQuantity)

\* a call of InstantBuyBot.check_position()
ib_check_position(tk, ord, tk2) ==
    ib_apply(instant_check_position(ib_position, ib_trade_history, tk, ord, tk2), NoQuantity)

\* InstantBuyBot.get_position_value(): "None" when the price fetch raises.
get_position_value(pos, tk) ==
    IF ~pos.open THEN "status"
    ELSE IF ~tk.ok THEN "None"
    ELSE "status"

\* a call of InstantBuyBot.get_position_value(); no ticker is read without a
\* position
ib_get_position_value(tk) ==
    /\ symbols.built
    /\ lastReturn' = Return("ib", "get_position_value",
                            IF ib_position.open /\ ~tk.ok THEN "no_price" ELSE "",
                            get_position_value(ib_position, tk))
    /\ lastOrder' = NoOrder
    /\ lastQuantity' = NoQuantity
    /\ UNCHANGED <<managerVars, symbols, ib_position, ib_trade_history, tb_running,
                   tb_current_position, tb_trade_history, serviceVars>>

\* ---------------------------------------------------------------- TradingBot
\* TradingBot.__init__ sets no symbol_manager attribute, and nothing else does.
has_symbol_manager == FALSE

\* The last trade get_my_trades returns: none, a buy or a sell at a price.
TradeInputs ==
    {[some |-> FALSE, isBuyer |-> FALSE, price |-> 0]}
        \cup {[some |-> TRUE, isBuyer |-> ib, price |-> p] : ib \in BOOLEAN, p \in Prices}

TbBuyRecord(q, p) == [type |-> "BUY", price |-> p, quantity |-> q, value |-> q * p]
TbSellRecord(q, p, pl, reason) ==
    [type |-> "SELL", price |-> p, quantity |-> q, value |-> q * p,
     profit_loss |-> pl, reason |-> reason]

\* TradingBot._place_buy_order; reading self.symbol_manager raises AttributeError.
place_buy_order(pos, hist, info, tkq, ord, tk) ==
    LET calc == calculate_quantity(info, tkq, investment_amount)
    IN  IF ~has_symbol_manager THEN Outcome(pos, hist, "", 0, FALSE)
        ELSE IF ~calc.ok \/ calc.quantity = 0 THEN Outcome(pos, hist, "", 0, FALSE)
        ELSE IF ord # "ok" THEN Outcome(pos, hist, "BUY", calc.quantity, FALSE)
        ELSE IF ~tk.ok THEN Outcome(pos, hist, "BUY", calc.quantity, TRUE)
        ELSE Outcome(TbPosition(calc.quantity, tk.price, calc.quantity * tk.price),
                     Append(hist, TbBuyRecord(calc.quantity, tk.price)),
                     "BUY", calc.quantity, TRUE)

\* TradingBot._place_sell_order
place_sell_order(pos, hist, reason, ord, tk) ==
    IF ~pos.open THEN Outcome(pos, hist, "", 0, FALSE)
    ELSE IF ord # "ok" THEN Outcome(pos, hist, "SELL", pos.quantity, FALSE)
    ELSE IF ~tk.ok THEN Outcome(pos, hist, "SELL", pos.quantity, TRUE)
    ELSE Outcome(TbNone,
                 Append(hist, TbSellRecord(pos.quantity, tk.price,
                                           pos.quantity * tk.price - pos.value, reason)),
                 "SELL", pos.quantity, TRUE)

\* TradingBot._should_buy: the last close is below the average close.
should_buy(kl) == kl[Len(kl)] * Len(kl) < Sum(kl)

\* TradingBot._simple_strategy
simple_strategy(pos, hist, info, tk, trades, kl, tkq, ord, tk2) ==
    IF ~tk.ok THEN Outcome(pos, hist, "", 0, FALSE)
    ELSE IF trades.some
    THEN IF ~trades.isBuyer THEN Outcome(pos, hist, "", 0, FALSE)
         ELSE IF tk.price * 100 >= trades.price * profit_target
         THEN place_sell_order(pos, hist, "Take profit", ord, tk2)
         ELSE IF tk.price * 100 <= trades.price * stop_loss
         THEN place_sell_order(pos, hist, "Stop loss", ord, tk2)
         ELSE Outcome(pos, hist, "", 0, FALSE)
    ELSE IF kl = <<>> THEN Outcome(pos, hist, "", 0, FALSE)
    ELSE IF should_buy(kl) THEN place_buy_order(pos, hist, info, tkq, ord, tk2)
    ELSE Outcome(pos, hist, "", 0, FALSE)

\* TradingBot.start()
tb_start ==
    /\ symbols.built
    /\ ~tb_running
    /\ tb_running' = TRUE
    /\ lastOrder' = NoOrder
    /\ lastReturn' = NoReturn
    /\ lastQuantity' = NoQuantity
    /\ UNCHANGED <<managerVars, symbols, ib_position, ib_trade_history,
                   tb_current_position, tb_trade_history, serviceVars>>

\* TradingBot.stop()
tb_stop ==
    /\ tb_running
    /\ tb_running' = FALSE
    /\ lastOrder' = NoOrder
    /\ lastReturn' = NoReturn
    /\ lastQuantity' = NoQuantity
    /\ UNCHANGED <<managerVars, symbols, ib_position, ib_trade_history,
                   tb_current_position, tb_trade_history, serviceVars>>

\* TradingBot.get_status(): "None" when the price fetch raises, or the division
\* by the position's value does.
get_status(pos, tk) ==
    IF ~tk.ok THEN "None"
    ELSE IF pos.open /\ pos.value = 0 THEN "None"
    ELSE "status"

\* a call of TradingBot.get_status()
tb_get_status(tk) ==
    /\ symbols.built
    /\ lastReturn' = Return("tb", "get_status", IF tk.ok THEN "" ELSE "no_price",
                            get_status(tb_current_position, tk))
    /\ lastOrder' = NoOrder
    /\ lastQuantity' = NoQuantity
    /\ UNCHANGED <<managerVars, symbols, ib_position, ib_trade_history, tb_running,
                   tb_current_position, tb_trade_history, serviceVars>>

\* one iteration of TradingBot._run
tb_run(tk, trades, kl, tkq, ord, tk2) ==
    /\ tb_running
    /\ Len(tb_trade_history) < MaxHistory
    /\ LET out == simple_strategy(tb_current_position, tb_trade_history, symbols,
                                  tk, trades, kl, tkq, ord, tk2)
       IN  /\ tb_current_position' = out.position
           /\ tb_trade_history' = out.history
           /\ lastOrder' = OrderOf("tb", tb_current_position, tb_trade_history, out)
    /\ lastReturn' = NoReturn
    /\ lastQuantity' = NoQuantity
    /\ UNCHANGED <<managerVars, symbols, ib_position, ib_trade_history, tb_running,
                   serviceVars>>

\* ---------------------------------------------------------------- specification
\* The steps of the cycle threads, with gateway results from the given sets.
CycleNext(TK, KL, INFO, OTH) ==
    \/ \E t \in Threads : run_while(t)
    \/ \E t \in Threads : run_acquire(t)
    \/ \E t \in Threads, tk \in TK, kl \in KL, info \in INFO :
          run_analyze_simple(t, tk, kl, info)
    \/ \E t \in Threads, oth \in OTH : run_analyze_other(t, oth)
    \/ \E t \in Threads, ord \in OrderInputs, tk \in TK : run_execute(t, ord, tk)
    \/ \E t \in Threads : run_end_pass(t)
    \/ \E t \in Threads : run_wake(t)

\* The steps of threads C calling start().
StartNext(C) ==
    \/ \E c \in C : start_check(c)
    \/ \E c \in C : start_set(c)
    \/ \E c \in C : start_assign(c)
    \/ \E c \in C : start_run(c)

\* The steps of threads C calling stop().
StopNext(C) ==
    \/ \E c \in C : stop_check(c)
    \/ \E c \in C : stop_set(c)
    \/ \E c \in C : stop_read(c)
    \/ \E c \in C : stop_join(c)

\* The steps of threads C calling add_bot(b), b in B, and get_bot_statuses().
RegistryNext(C, B, TK) ==
    \/ \E c \in C, b \in B : add_bot_check(c, b)
    \/ \E c \in C : add_bot_append(c)
    \/ \E c \in C : statuses_acquire(c)
    \/ \E c \in C, tk \in TK : statuses_next(c, tk)
    \/ \E c \in C : statuses_return(c)

\* One thread (the GUI thread, main()) calls the manager; the cycle runs beside it.
Next ==
    \/ CycleNext(TickerInputs, KlineInputs, InfoInputs, OtherInputs)
    \/ StartNext({"c1"})
    \/ StopNext({"c1"})
    \/ RegistryNext({"c1"}, Bots, TickerInputs)

Spec == Init /\ [][Next]_vars

\* Several threads call the manager at once.  In these specifications the
\* gateway answers every call, with one price; the trading itself is covered
\* by Spec.
RaceTickers == {[ok |-> TRUE, price |-> 100]}
RaceKlines == {Repeat(100, 18) \o Repeat(103, 6)}
RaceInfos == {[k |-> "step", d |-> 0]}
RaceOthers == {r \in OtherInputs : r.action = "waiting"}

\* Two threads call start() and stop(); one of them registers agents.
NextLife ==
    \/ CycleNext(RaceTickers, RaceKlines, RaceInfos, RaceOthers)
    \/ StartNext(Callers)
    \/ StopNext(Callers)
    \/ RegistryNext({"c1"}, {"b2", "b3"}, RaceTickers)

SpecLife == Init /\ [][NextLife]_vars

\* Two threads call add_bot() and get_bot_statuses() while the cycle runs.
NextRegistry ==
    \/ CycleNext(RaceTickers, RaceKlines, RaceInfos, RaceOthers)
    \/ StartNext({"c1"})
    \/ RegistryNext(Callers, Bots, RaceTickers)

SpecRegistry == Init /\ [][NextRegistry]_vars

\* A gateway call may hang.  The cycle thread runs whenever it can: it is a
\* thread of its own and every call that returns lets it go on.
CycleRuns == CycleNext(RaceTickers, RaceKlines, RaceInfos, RaceOthers)

NextHang ==
    \/ CycleRuns
    \/ \E t \in Threads : run_hang(t)
    \/ StartNext({"c1"})
    \/ RegistryNext({"c1"}, {"b2", "b3"}, RaceTickers)

SpecHang == Init /\ [][NextHang]_vars /\ WF_vars(CycleRuns)

\* One thread calls start() and stop(), another add_bot() and
\* get_bot_statuses().  Every gateway call returns, and a thread that can go
\* on inside a call does: the thread inside stop(), the thread inside
\* add_bot() or get_bot_statuses(), and the cycle thread, which also gets the
\* registry lock when the lock is released again and again.
StopProceeds(c) == stop_set(c) \/ stop_read(c) \/ stop_join(c)
CallProceeds(c) ==
    \/ add_bot_append(c)
    \/ \E tk \in RaceTickers : statuses_next(c, tk)
    \/ statuses_return(c)

NextStop ==
    \/ CycleRuns
    \/ StartNext({"c1"})
    \/ StopNext({"c1"})
    \/ RegistryNext({"c2"}, {"b2", "b3"}, RaceTickers)

SpecStop ==
    Init /\ [][NextStop]_vars /\ SF_vars(CycleRuns) /\ WF_vars(StopProceeds("c1"))
        /\ WF_vars(CallProceeds("c2"))

\* The manager is started and never stopped; analyses raise and gateway calls
\* fail, but every call returns.  The cycle thread and the thread inside a
\* call go on as in SpecStop.
CycleFails == CycleNext(TickerInputs, KlineInputs, InfoInputs, OtherInputs)

NextLoop ==
    \/ CycleFails
    \/ StartNext({"c1"})
    \/ RegistryNext({"c1"}, {"b2", "b3"}, RaceTickers)

SpecLoop ==
    Init /\ [][NextLoop]_vars /\ SF_vars(CycleFails) /\ WF_vars(CallProceeds("c1"))

\* Every thread contends: c1 calls start() and stop(), c2 calls add_bot(),
\* both call get_bot_statuses(), and a get_bot_statuses() call that finds the
\* lock held blocks.  Every gateway call returns.  The threads go on as in
\* SpecStop, and a caller blocked on the lock gets it when it is released
\* again and again (the cycle thread sleeps a minute after releasing it).
LockGranted(c) == cpc[c] = "stat_lock" /\ statuses_acquire(c)

NextLive ==
    \/ CycleRuns
    \/ StartNext({"c1"})
    \/ StopNext({"c1"})
    \/ RegistryNext({"c2"}, {"b2", "b3"}, RaceTickers)
    \/ statuses_acquire("c1")
    \/ \E tk \in RaceTickers : statuses_next("c1", tk)
    \/ statuses_return("c1")
    \/ \E c \in Callers : statuses_block(c)

SpecLive ==
    /\ Init /\ [][NextLive]_vars
    /\ SF_vars(CycleRuns)
    /\ WF_vars(StopProceeds("c1"))
    /\ \A c \in Callers : WF_vars(CallProceeds(c)) /\ SF_vars(LockGranted(c))

\* The gateway answers every ticker call, with a price that may be 0 (a symbol
\* without trades).
ZeroTickers == {[ok |-> TRUE, price |-> p] : p \in {0, 100}}

NextZero ==
    \/ CycleNext(ZeroTickers, RaceKlines, RaceInfos, OtherInputs)
    \/ StartNext({"c1"})
    \/ RegistryNext({"c1"}, {"b2", "b3"}, ZeroTickers)

SpecZero == Init /\ [][NextZero]_vars

\* The calls of the stand-alone agents (InstantBuyBot, TradingBot).
AgentsNext ==
    \/ \E cache \in SymbolCaches : agents_init(cache)
    \/ \E tk \in TickerInputs, tkq \in TickerInputs, ord \in OrderInputs :
          ib_execute_buy(tk, tkq, ord)
    \/ \E tk \in TickerInputs, ord \in OrderInputs, tk2 \in TickerInputs :
          ib_check_position(tk, ord, tk2)
    \/ \E tk \in TickerInputs : ib_get_position_value(tk)
    \/ \E tk \in TickerInputs : tb_get_status(tk)
    \/ tb_start
    \/ tb_stop
    \/ \E tk \in TickerInputs, trades \in TradeInputs, kl \in KlineInputs,
          tkq \in TickerInputs, ord \in OrderInputs, tk2 \in TickerInputs :
          tb_run(tk, trades, kl, tkq, ord, tk2)

SpecAgents == Init /\ [][AgentsNext]_vars

\* A thread refreshes the symbol cache of the InstantBuyBot's SymbolManager
\* while another calls the agent.
NextRefresh ==
    \/ \E cache \in SymbolCaches : agents_init(cache)
    \/ \E r \in RefreshInputs : refresh_fetch(r)
    \/ refresh_clear
    \/ refresh_fill
    \/ \E tk \in TickerInputs, tkq \in TickerInputs, ord \in OrderInputs :
          ib_execute_buy(tk, tkq, ord)
    \/ \E tk \in TickerInputs, ord \in OrderInputs, tk2 \in TickerInputs :
          ib_check_position(tk, ord, tk2)

SpecRefresh == Init /\ [][NextRefresh]_vars

\* The calls that read and extend the PortfolioBot's value history, at any hour.
NextDaily ==
    \/ tick(MaxClock)
    \/ call_get_value_24h_ago
    \/ \E acct \in AccountInputs : get_portfolio_value(acct)

SpecDaily == Init /\ [][NextDaily]_vars

\* get_portfolio_value() called on accounts of every kind.
NextValuation ==
    \/ tick(1)
    \/ \E acct \in ValuationInputs : get_portfolio_value(acct)

SpecValuation == Init /\ [][NextValuation]_vars

\* analyze_and_trade() called at any hour, one call after another.
NextRebalance ==
    \/ tick(MaxRebalanceClock)
    \/ \E acct \in AccountInputs, d \in Elapsed :
          analyze_and_trade(acct, d, MaxRebalanceClock)

SpecRebalance == Init /\ [][NextRebalance]_vars

\* analyze_and_trade() called on accounts of every exposure.
NextExposure ==
    \/ tick(MaxRebalanceClock)
    \/ \E acct \in ExposureInputs, d \in Elapsed :
          analyze_and_trade(acct, d, MaxRebalanceClock)

SpecExposure == Init /\ [][NextExposure]_vars

\* Order placement by every kind of agent.  The manager and the stand-alone
\* agents share no state, so a behaviour drives one of them: the manager's
\* steps as in Spec while no stand-alone agent exists, or the stand-alone
\* agents' steps while the manager is as constructed.
NextOrders ==
    \/ AgentsInit /\ Next
    \/ ManagerInit /\ AgentsNext

SpecOrders == Init /\ [][NextOrders]_vars

\* ---------------------------------------------------------------- claims
\* The agent a thread's for-loop is at.
BotAt(t) == bots[tidx[t] + 1]

\* The position and the trade history of an agent, whoever drives it.
PositionOf(b) ==
    IF b = "ib" THEN ib_position
    ELSE IF b = "tb" THEN tb_current_position
    ELSE current_position[b]

HistoryOf(b) ==
    IF b = "ib" THEN ib_trade_history
    ELSE IF b = "tb" THEN tb_trade_history
    ELSE <<>>

\* C1: cycle isolation.  When a pass of _run over the registry is over, every
\* agent registered when the pass began was stepped in it, also when the step
\* of one of them raised or failed.
CycleIsolation ==
    \A t \in Threads : tpc[t] = "sleep" => tidx[t] >= passLen[t]

\* A pass is over in which an agent that was not the last one failed.
CycleIsolationWitness ==
    \E t \in Threads :
        /\ tpc[t] = "sleep"
        /\ passErr[t] > 0
        /\ passErr[t] < passLen[t]
        /\ tidx[t] >= passLen[t]

\* A cycle thread is executing the step of an agent that was registered when
\* its pass began, or is about to begin one.
StepInFlight(t) ==
    /\ tpc[t] \in {"for", "exec"}
    /\ tidx[t] < passLen[t]

\* C2: stop() is synchronous.  Once a call of stop() has returned, and until
\* start() is called again, no cycle thread executes or begins an agent's step.
StopIsSynchronous ==
    stopReturned => \A t \in Threads : ~StepInFlight(t)

\* C3: add_bot appends to the registry only while no cycle thread holds the
\* registry lock (is inside its iteration over the registry).
AddBotExcludesCycle ==
    [][bots' # bots => lock.thread = NoThread]_vars

\* C4: while a call of get_bot_statuses iterates the registry, the registry
\* does not change.
StatusesSeeOneRegistry ==
    [][(\E c \in Callers : cpc[c] = "stat_for") => bots' = bots]_vars

\* The step is caller c's add_bot(b) running up to the append.
AddBotChecked(c, b) ==
    /\ cpc[c] = "idle"
    /\ \/ cpc'[c] = "add_append" /\ cbot'[c] = b
       \/ lastReturn' = Return(c, "add_bot", b, "False")

\* C5: add_bot with an agent whose symbol is registered returns False and
\* leaves the registry as it is; add_bot with a well-formed agent whose symbol
\* is not registered appends that agent and returns True.
AddBotContract ==
    [][\A c \in Callers :
         /\ \A b \in Bots :
              AddBotChecked(c, b) =>
                  /\ bots' = bots
                  /\ (\E i \in 1..Len(bots) : symbol(bots[i]) = symbol(b))
                        => lastReturn' = Return(c, "add_bot", b, "False")
                  /\ (has_required_attributes(b)
                        /\ \A i \in 1..Len(bots) : symbol(bots[i]) # symbol(b))
                        => cpc'[c] = "add_append"
         /\ cpc[c] = "add_append" /\ cpc'[c] # "add_append" =>
              /\ bots' = Append(bots, cbot[c])
              /\ lastReturn' = Return(c, "add_bot", cbot[c], "True")]_vars

\* add_bot has just refused a well-formed agent, two agents being registered.
AddBotWitness ==
    /\ lastReturn.op = "add_bot"
    /\ lastReturn.value = "False"
    /\ has_required_attributes(lastReturn.arg)
    /\ Len(bots) = 2

\* C6: for a SimpleBot driven by the cycle, a BUY order is submitted only
\* while current_position is None and a SELL order only while it is not None;
\* a position is opened only from None, so an agent never holds two.
OrdersMatchPosition ==
    /\ \A t \in Threads :
         tpc[t] = "exec" /\ kind(BotAt(t)) = "SimpleBot" =>
             (tact[t].action = "buy") = ~current_position[BotAt(t)].open
    /\ lastOrder.bot \in Bots /\ kind(lastOrder.bot) = "SimpleBot" =>
         (lastOrder.side = "BUY") = ~lastOrder.before.open

\* A SimpleBot's SELL order was accepted (after its BUY order was).
OrdersMatchPositionWitness ==
    /\ lastOrder.bot \in Bots
    /\ kind(lastOrder.bot) = "SimpleBot"
    /\ lastOrder.side = "SELL"
    /\ lastOrder.accepted
    /\ ~current_position[lastOrder.bot].open

\* The cycle thread went on to the agent after b; b stays registered.
MovedPast(b) ==
    \E t \in Threads :
        /\ lock = HeldByThread(t)
        /\ tpc[t] = "for"
        /\ tidx[t] >= 1
        /\ bots[tidx[t]] = b

\* C7: when the gateway fails the SELL order, the agent's position is as it
\* was before the step, no trade record is appended, and the agent stays
\* registered with its position, to be evaluated again by the next pass.
FailedSellKeepsPosition ==
    lastOrder.side = "SELL" /\ ~lastOrder.accepted =>
        /\ PositionOf(lastOrder.bot) = lastOrder.before
        /\ HistoryOf(lastOrder.bot) = lastOrder.history
        /\ lastOrder.bot \in Bots => MovedPast(lastOrder.bot)

\* The gateway has just failed the SELL order of an agent holding a position.
FailedSellWitness ==
    /\ lastOrder.side = "SELL"
    /\ ~lastOrder.accepted
    /\ lastOrder.before.open
    /\ kind(lastOrder.bot) = "SimpleBot"

\* C8: no "maybe sold" state.  At the end of a step in which the gateway
\* accepted the agent's SELL order the position is cleared.
NoMaybeSold ==
    lastOrder.side = "SELL" /\ lastOrder.accepted => ~PositionOf(lastOrder.bot).open

\* C9: at the end of a step in which the gateway accepted the BUY order placed
\* by the manager for an Idle agent, the agent has an open position with the
\* ordered quantity (so accepted BUYs minus accepted SELLs is 1 exactly while
\* a position is open).
AcceptedBuyOpensPosition ==
    lastOrder.bot \in Bots /\ lastOrder.side = "BUY" /\ lastOrder.accepted
        /\ ~lastOrder.before.open =>
            /\ current_position[lastOrder.bot].open
            /\ current_position[lastOrder.bot].quantity = lastOrder.quantity

\* C10: when the gateway fails the BUY order, the position is as it was (an
\* Idle agent stays Idle), no trade record is appended, and the step places
\* no second order: the cycle goes on to the next agent.
FailedBuyStaysIdle ==
    lastOrder.side = "BUY" /\ ~lastOrder.accepted =>
        /\ PositionOf(lastOrder.bot) = lastOrder.before
        /\ ~lastOrder.before.open => ~PositionOf(lastOrder.bot).open
        /\ HistoryOf(lastOrder.bot) = lastOrder.history
        /\ lastOrder.bot \in Bots => MovedPast(lastOrder.bot)

\* The gateway has just failed the BUY order of an Idle SimpleBot.
FailedBuyWitness ==
    /\ lastOrder.side = "BUY"
    /\ ~lastOrder.accepted
    /\ kind(lastOrder.bot) = "SimpleBot"
    /\ ~current_position[lastOrder.bot].open

\* C11: quantization never rounds up.  A quantity that calculate_quantity
\* returns is an integer multiple of the symbol's step size and costs at most
\* the quote amount at the price it read (quantity <= quote_amount / price).
QuantizationNeverRoundsUp ==
    lastQuantity.called /\ lastQuantity.ok =>
        /\ lastQuantity.quantity % StepUnits(lastQuantity.info.stepDigits) = 0
        /\ lastQuantity.quantity * lastQuantity.price
              <= lastQuantity.quote_amount * QScale

\* The call read a cached symbol and a price, and the quantized quantity times
\* that price is below the symbol's minNotional.
BelowMinNotional(q) ==
    /\ q.called
    /\ q.info.present
    /\ q.price > 0
    /\ quantized(q.info, q.price, q.quote_amount) * q.price < q.info.minNotional * QScale

\* C12: min-notional rejection.  A buy operation whose calculate_quantity call
\* finds the quantized quantity times the price below minNotional gets no
\* quantity, submits no order and leaves position and trade history as they are.
MinNotionalRejects ==
    [][BelowMinNotional(lastQuantity') =>
         /\ ~lastQuantity'.ok
         /\ lastOrder' = NoOrder
         /\ ib_position' = ib_position
         /\ ib_trade_history' = ib_trade_history
         /\ tb_current_position' = tb_current_position
         /\ tb_trade_history' = tb_trade_history]_vars

\* execute_buy has just been refused a quantity for a notional of 99.91 < 100.
MinNotionalWitness ==
    /\ BelowMinNotional(lastQuantity)
    /\ lastQuantity.price = 103
    /\ lastQuantity.info.minNotional = 100
    /\ ~lastQuantity.ok
    /\ lastOrder = NoOrder

\* quantity rounded down to a multiple of the step 10^-d.
RoundedDown(quantity, d) == (quantity \div StepUnits(d)) * StepUnits(d)

\* C13: the quantity with which the cycle goes on to submit a SimpleBot's BUY
\* order is quantized: where the symbol's step size is known, it is the raw
\* quantity investment_amount / price rounded down to that step size.
CycleBuysAreQuantized ==
    [][\A t \in Threads, tk \in TickerInputs, kl \in KlineInputs, info \in InfoInputs :
         run_analyze_simple(t, tk, kl, info) /\ tact'[t].action = "buy"
             /\ info.k = "step" =>
                 tact'[t].quantity
                     = RoundedDown((investment_amount * QScale) \div tk.price, info.d)]_vars

\* C14: atomic cache refresh.  A calculate_quantity call made while
\* refresh_symbols runs reads the cache entry as it was before the refresh or
\* as it is after it, never a cache emptied or partly filled by the refresh.
ReadersSeeWholeCache ==
    lastQuantity.called /\ refresh_pc # "idle" /\ exchange_info.k = "ok" =>
        lastQuantity.info \in {cache_before, exchange_info.cache}

\* The step is one of a get_bot_statuses, TradingBot.get_status or
\* InstantBuyBot.get_position_value call.
IsStatusQueryStep ==
    \/ \E c \in Callers :
          /\ cpc[c] = "stat_for" \/ cpc'[c] = "stat_for"
          /\ cpc'[c] # cpc[c] \/ cidx'[c] # cidx[c]
    \/ lastReturn'.op \in {"get_status", "get_position_value"}

\* C15: status queries are pure reads.  A step of a status query leaves the
\* registry, every agent's position and trade history and the running flags
\* unchanged, and places no order.
StatusQueriesArePure ==
    [][IsStatusQueryStep =>
         /\ bots' = bots
         /\ current_position' = current_position
         /\ running' = running
         /\ ib_position' = ib_position
         /\ ib_trade_history' = ib_trade_history
         /\ tb_current_position' = tb_current_position
         /\ tb_trade_history' = tb_trade_history
         /\ tb_running' = tb_running
         /\ lastOrder' = NoOrder]_vars

\* get_bot_statuses has just returned while an agent holds a position.
StatusQueriesWitness ==
    /\ lastReturn.op = "get_bot_statuses"
    /\ \E i \in 1..Len(bots) : current_position[bots[i]].open

\* C16: a status query whose price fetch fails still returns a status for the
\* agent.
FailedPriceStillGivesStatus ==
    lastReturn.op = "get_status" /\ lastReturn.arg = "no_price" =>
        lastReturn.value = "status"

\* C17: a gateway call that is slow or never returns delays only the agent in
\* whose step it is made: a pass that began goes on to step every other agent
\* registered for it, and ends.
HangDelaysOneAgent ==
    \A t \in Threads :
        (tpc[t] = "for" /\ passLen[t] = 2) ~> (tpc[t] = "sleep")

\* The entry price of a position, whichever agent holds it.
EntryPrice(b, pos) == IF b = "tb" THEN pos.entry_price ELSE pos.price

\* C18: on a successful sell (the order was accepted and the position cleared)
\* the agent has appended exactly one trade record: a SELL record whose
\* realized P/L is (fill price - entry price) x held quantity.
SuccessfulSellRecordsPL ==
    lastOrder.bot \in {"ib", "tb"} /\ lastOrder.side = "SELL" /\ lastOrder.accepted
        /\ ~PositionOf(lastOrder.bot).open =>
            LET h == HistoryOf(lastOrder.bot)
                r == h[Len(h)]
            IN  /\ Len(h) = Len(lastOrder.history) + 1
                /\ r.type = "SELL"
                /\ "profit_loss" \in DOMAIN r
                /\ r.profit_loss
                     = (r.price - EntryPrice(lastOrder.bot, lastOrder.before))
                           * lastOrder.before.quantity

\* C19: every call of _get_value_24h_ago returns the value of a snapshot at
\* the least distance from now-24h when a snapshot lies within 2 hours of
\* now-24h, and None otherwise, an empty history included.
DailyChangeSelection ==
    lastYesterday.called =>
        LET h == lastYesterday.history
            target_time == lastYesterday.at - DayHours
            least == {i \in DOMAIN h : \A j \in DOMAIN h :
                        Distance(h[i], target_time) <= Distance(h[j], target_time)}
        IN  IF \E i \in DOMAIN h : Distance(h[i], target_time) <= ToleranceHours
            THEN /\ lastYesterday.found
                 /\ \E i \in least : lastYesterday.value = h[i].value
            ELSE ~lastYesterday.found

\* Snapshots at t-26h and t-23h: the call at t returned the t-23h one.
DailyChangeWitness ==
    /\ lastYesterday.called
    /\ lastYesterday.history =
           <<[t |-> lastYesterday.at - 26, value |-> 100],
             [t |-> lastYesterday.at - 23, value |-> 110]>>
    /\ lastYesterday.found
    /\ lastYesterday.value = 110

\* C20: any two consecutive invocations of _rebalance_portfolio are more than
\* 4 hours apart, and the first is more than 4 hours after the PortfolioBot
\* was constructed (hour 0).
RebalanceRateLimit ==
    /\ \A i \in 1..(Len(rebalances) - 1) :
          rebalances[i + 1] - rebalances[i] > RebalanceHours
    /\ rebalances # <<>> => rebalances[1] - 0 > RebalanceHours

\* _rebalance_portfolio has been invoked twice.
RebalanceTwiceWitness ==
    /\ Len(rebalances) = 2
    /\ last_rebalance >= rebalances[2]

InstantBuyNeverPyramids ==
    lastOrder.bot = "ib" =>
        /\ lastOrder.side = "BUY" => ~lastOrder.before.open
        /\ lastOrder.side = "SELL" => lastOrder.before.open

\* C23: an iteration of the TradingBot's loop taken while Idle, in which every
\* gateway call succeeds, no trade is on record, _should_buy is true and the
\* quantity passes quantization, ends with current_position set and exactly
\* one BUY record appended to trade_history.
TradingBotBuyOpensPosition ==
    [][\A tk \in TickerInputs, trades \in TradeInputs, kl \in KlineInputs,
         tkq \in TickerInputs, ord \in OrderInputs, tk2 \in TickerInputs :
         /\ ~tb_current_position.open
         /\ tk.ok /\ tkq.ok /\ tk2.ok /\ ord = "ok"
         /\ ~trades.some
         /\ kl # <<>> /\ should_buy(kl)
         /\ calculate_quantity(symbols, tkq, investment_amount).ok
         /\ tb_run(tk, trades, kl, tkq, ord, tk2)
         => /\ tb_current_position'.open
            /\ Len(tb_trade_history') = Len(tb_trade_history) + 1
            /\ tb_trade_history'[Len(tb_trade_history')].type = "BUY"]_vars

\* The exit conditions of a position entered at entry, at a price.
TakeProfit(price, entry) == price * 100 >= entry * profit_target
StopLoss(price, entry) == price * 100 <= entry * stop_loss

\* C24: exit evaluation.  Whatever market data the step reads, an agent that
\* holds a position decides a SELL exactly when take-profit, stop-loss or
\* (SimpleBot) the strategy's sell signal matches; the first of them in that
\* order gives the reason; the step submits one order at most, a SELL.
ExitPriority ==
    /\ ib_position.open =>
          \A tk \in TickerInputs, ord \in OrderInputs, tk2 \in TickerInputs :
              tk.ok =>
                  LET out == instant_check_position(ib_position, ib_trade_history,
                                                    tk, ord, tk2)
                      tp == TakeProfit(tk.price, ib_position.price)
                      sl == StopLoss(tk.price, ib_position.price)
                  IN  /\ out.side = IF tp \/ sl THEN "SELL" ELSE ""
                      /\ ~(tp \/ sl) => out.history = ib_trade_history
                      /\ out.history # ib_trade_history =>
                             out.history
                                 = Append(ib_trade_history,
                                          SellRecord(ib_position.quantity, tk2.price,
                                                     IF tp THEN "Take profit"
                                                     ELSE "Stop loss"))
    /\ \A t \in Threads :
          /\ tpc[t] = "for"
          /\ tidx[t] < Len(bots)
          /\ kind(BotAt(t)) = "SimpleBot"
          /\ current_position[BotAt(t)].open
          => \A tk \in TickerInputs, kl \in KlineInputs, info \in InfoInputs :
                 tk.ok /\ kl # <<>> /\ info.k # "raise" =>
                     LET pos == current_position[BotAt(t)]
                         exit == \/ TakeProfit(tk.price, pos.price)
                                 \/ StopLoss(tk.price, pos.price)
                                 \/ MeanLess(LastN(kl, 6), kl)
                     IN  simple_analyze(pos, tk, kl, info)
                             = IF exit THEN Sell(pos.quantity) ELSE Waiting
    /\ \A t \in Threads :
          tpc[t] = "exec" /\ current_position[BotAt(t)].open
              /\ kind(BotAt(t)) = "SimpleBot" => tact[t].action = "sell"

\* check_position has just sold on the stop-loss.
ExitPriorityWitness ==
    /\ lastOrder.bot = "ib"
    /\ lastOrder.side = "SELL"
    /\ lastOrder.accepted
    /\ ~ib_position.open
    /\ ib_trade_history[Len(ib_trade_history)].reason = "Stop loss"

\* An agent of the repository's own classes: a SimpleBot of the registry, the
\* InstantBuyBot or the TradingBot.
OwnAgent(b) == b \in {"ib", "tb"} \/ (b \in Bots /\ kind(b) = "SimpleBot")

\* C25: every SELL order submitted for an agent carries exactly the quantity
\* of the position the agent holds, and so does the SELL the cycle is about
\* to submit for a SimpleBot.
SellsFullPosition ==
    /\ lastOrder.side = "SELL" /\ OwnAgent(lastOrder.bot) =>
          /\ lastOrder.before.open
          /\ lastOrder.quantity = lastOrder.before.quantity
    /\ \A t \in Threads :
          tpc[t] = "exec" /\ tact[t].action = "sell" /\ OwnAgent(BotAt(t)) =>
              /\ current_position[BotAt(t)].open
              /\ tact[t].quantity = current_position[BotAt(t)].quantity

\* A SELL order was submitted for a SimpleBot holding what it bought at 103,
\* a quantity other than the one the investment amount buys at the sale price.
SellsFullPositionWitness ==
    /\ lastOrder.side = "SELL"
    /\ lastOrder.bot \in Bots
    /\ kind(lastOrder.bot) = "SimpleBot"
    /\ lastOrder.before.price = 103
    /\ lastOrder.quantity = lastOrder.before.quantity
    /\ lastOrder.quantity > 0

\* C26: no internal retry.  A step that submits an order for an agent of the
\* registry ends that agent's turn: the for-loop goes on to the next agent
\* whether the order was accepted or not; within a pass the loop never goes
\* back; and no agent is registered twice.  So a pass submits one order at
\* most per agent, and a failed order is submitted again by a later pass only.
NoInternalRetry ==
    [][/\ lastOrder'.bot \in Bots =>
            \E t \in Threads :
                /\ tpc[t] = "exec"
                /\ lastOrder'.bot = BotAt(t)
                /\ tpc'[t] = "for"
                /\ tidx'[t] = tidx[t] + 1
       /\ \A t \in Threads :
            tpc[t] \in {"for", "exec"} /\ tpc'[t] \in {"for", "exec"} =>
                tidx'[t] >= tidx[t]
       /\ \A i, j \in 1..Len(bots) : i # j => bots[i] # bots[j]]_vars

\* The SELL order of the second of two agents has just failed, and the pass
\* is at its end.
NoInternalRetryWitness ==
    /\ lastOrder.bot \in Bots
    /\ lastOrder.side = "SELL"
    /\ ~lastOrder.accepted
    /\ Len(bots) = 2
    /\ \E t \in Threads : tpc[t] = "for" /\ tidx[t] = 2 /\ bots[2] = lastOrder.bot

\* The cycle thread runs, the manager is running and i agents are registered.
LoopRuns(i) ==
    /\ running
    /\ Len(bots) >= i
    /\ \E t \in Threads : tpc[t] \in {"while", "lock", "for", "exec", "sleep"}

\* The step of the i-th agent of the registry is just over.
Stepped(i) == \E t \in Threads : tpc[t] = "for" /\ tidx[t] = i

\* C27: per-agent errors never end the loop.  While the manager is running,
\* whatever raised or failed before, every registered agent is stepped again.
ErrorsNeverEndLoop ==
    \A i \in 1..2 : LoopRuns(i) ~> Stepped(i)

\* A pass whose last agent failed is over and the cycle thread sleeps until
\* the next one.
ErrorsNeverEndLoopWitness ==
    /\ running
    /\ \E t \in Threads :
          /\ tpc[t] = "sleep"
          /\ passLen[t] = 2
          /\ passErr[t] = 2

\* The step is one of a start(), stop(), add_bot() or get_bot_statuses() call.
IsManagerCallStep ==
    \/ cpc' # cpc
    \/ cidx' # cidx
    \/ lastReturn'.op \in {"start", "stop", "add_bot", "get_bot_statuses"}

\* C28: an agent's position goes from None to open only in a step in which
\* its BUY order was accepted, and from open to None only in a step in which
\* its SELL order was accepted; the steps of start(), stop(), add_bot() and
\* get_bot_statuses() leave every position as it is.
PositionChangesOnlyByOrders ==
    [][/\ \A b \in Bots \cup {"ib", "tb"} :
            /\ ~PositionOf(b).open /\ PositionOf(b)'.open =>
                  /\ lastOrder'.bot = b
                  /\ lastOrder'.side = "BUY"
                  /\ lastOrder'.accepted
            /\ PositionOf(b).open /\ ~PositionOf(b)'.open =>
                  /\ lastOrder'.bot = b
                  /\ lastOrder'.side = "SELL"
                  /\ lastOrder'.accepted
       /\ IsManagerCallStep =>
            /\ current_position' = current_position
            /\ ib_position' = ib_position
            /\ tb_current_position' = tb_current_position]_vars

\* stop() has just returned, the cycle thread joined, and an agent still
\* holds its position.
PositionSurvivesStopWitness ==
    /\ lastReturn.op = "stop"
    /\ ~running
    /\ update_thread \in Threads
    /\ tpc[update_thread] = "dead"
    /\ \E i \in 1..Len(bots) : current_position[bots[i]].open

\* In the step, history h becomes h2 by appending one record, that of the
\* accepted order of agent b.
AppendsAcceptedOrder(b, h, h2) ==
    /\ Len(h2) = Len(h) + 1
    /\ SubSeq(h2, 1, Len(h)) = h
    /\ lastOrder'.bot = b
    /\ lastOrder'.accepted
    /\ h2[Len(h2)].type = lastOrder'.side

\* C29: trade history is append-only.  Every step leaves the trade_history of
\* the InstantBuyBot and of the TradingBot as it was, or appends one record to
\* it, in a step in which the agent's order of that side was accepted.
HistoryAppendOnly ==
    [][/\ \/ ib_trade_history' = ib_trade_history
          \/ AppendsAcceptedOrder("ib", ib_trade_history, ib_trade_history')
       /\ \/ tb_trade_history' = tb_trade_history
          \/ AppendsAcceptedOrder("tb", tb_trade_history, tb_trade_history')]_vars

\* The InstantBuyBot's history is its BUY followed by its SELL, just appended.
HistoryAppendOnlyWitness ==
    /\ Len(ib_trade_history) = 2
    /\ ib_trade_history[1].type = "BUY"
    /\ ib_trade_history[2].type = "SELL"
    /\ lastOrder.bot = "ib"
    /\ lastOrder.side = "SELL"
    /\ lastOrder.history = <<ib_trade_history[1]>>

\* C30: the total_value a valuation returns is the sum, over the balances
\* with a positive amount and an available price, of amount x price (USDT at
\* 1), each asset counted once; an asset whose price fetch fails is skipped
\* and the valuation still succeeds.
ValuationCountsAssetsOnce ==
    lastValuation.called /\ lastValuation.balances # <<>> =>
        LET b == lastValuation.balances
            amount(i) == b[i].free + b[i].locked
            priced(i) == b[i].asset = "USDT" \/ lastValuation.prices[b[i].asset].ok
            price(i) == IF b[i].asset = "USDT" THEN 1
                        ELSE lastValuation.prices[b[i].asset].price
        IN  /\ lastValuation.ok
            /\ lastValuation.total
                  = Sum([i \in DOMAIN b |->
                           IF amount(i) > 0 /\ priced(i) THEN amount(i) * price(i) ELSE 0])

\* C31: exposure drift detection.  A call of _rebalance_portfolio flags
\* over-exposure exactly when (total value - quote balance) / total value of
\* the valuation it was given is above 0.8, and under-exposure exactly when
\* that ratio is below 0.2.
ExposureDriftDetection ==
    lastExposure.called /\ lastExposure.total_value > 0 =>
        LET crypto == lastExposure.total_value - lastExposure.usdt_balance
        IN  /\ (lastExposure.flag = "over") = (crypto * 10 > lastExposure.total_value * 8)
            /\ (lastExposure.flag = "under") = (crypto * 10 < lastExposure.total_value * 2)

\* C32: the registry never holds two agents with the same symbol, also when
\* several threads call add_bot at once and the cycle thread runs.
RegistrySymbolsDistinct ==
    \A i, j \in 1..Len(bots) : i # j => symbol(bots[i]) # symbol(bots[j])

\* C33: at most one cycle thread exists at any time.  After any interleaving
\* of start() and stop() calls of one or more callers, no more than one
\* thread is executing _run.
AtMostOneCycleThread ==
    Cardinality({t \in Threads : tpc[t] \in {"while", "lock", "for", "exec", "sleep"}}) <= 1

\* C34: get_bot_statuses never observes an agent in the middle of a step.
\* While a call iterates the registry it holds the lock and no cycle thread
\* is inside a pass (between agents, or between an agent's analysis and the
\* placement of its order), and every status built so far shows the position
\* the agent holds.
StatusesSeeWholeSteps ==
    \A c \in Callers :
        cpc[c] = "stat_for" =>
            /\ lock = HeldByCaller(c)
            /\ \A t \in Threads : tpc[t] \notin {"for", "exec"}
            /\ \A k \in 1..Len(cstat[c]) :
                  \E i \in 1..cidx[c] :
                      /\ cstat[c][k].symbol = symbol(bots[i])
                      /\ cstat[c][k].position = current_position[bots[i]]

\* A status showing an open position was built while the cycle thread waits
\* for the lock.
StatusesSeeWholeStepsWitness ==
    \E c \in Callers, t \in Threads :
        /\ cpc[c] = "stat_for"
        /\ tpc[t] = "lock"
        /\ Len(cstat[c]) >= 1
        /\ cstat[c][1].position.open

NoPrice == [ok |-> FALSE, price |-> 0]

\* C36: a failed price fetch never triggers a trade.  Whatever else the step
\* reads, a SimpleBot whose price fetch fails decides "waiting", holding a
\* position or not, and an InstantBuyBot whose ticker call raises in
\* check_position or execute_buy submits no order and keeps its position and
\* trade history; the cycle submits orders only for a decision to buy or sell.
FailedPriceNeverTrades ==
    /\ \A t \in Threads :
          tpc[t] = "for" /\ tidx[t] < Len(bots) /\ kind(BotAt(t)) = "SimpleBot" =>
              \A kl \in KlineInputs, info \in InfoInputs :
                  simple_analyze(current_position[BotAt(t)], NoPrice, kl, info) = Waiting
    /\ symbols.built =>
          \A ord \in OrderInputs, tk2 \in TickerInputs :
              /\ instant_check_position(ib_position, ib_trade_history, NoPrice, ord, tk2)
                    = Outcome(ib_position, ib_trade_history, "", 0, FALSE)
              /\ instant_execute_buy(ib_position, ib_trade_history, symbols, NoPrice, tk2, ord)
                    = Outcome(ib_position, ib_trade_history, "", 0, FALSE)
    /\ \A t \in Threads : tpc[t] = "exec" => tact[t].action \in {"buy", "sell"}
    /\ lastOrder.bot \in Bots => lastOrder.side \in {"BUY", "SELL"}

\* The step of a SimpleBot holding a position is just over: it placed no
\* order and the position is as it was.
FailedPriceNeverTradesWitness ==
    \E t \in Threads :
        /\ tpc[t] = "for"
        /\ tidx[t] >= 1
        /\ kind(bots[tidx[t]]) = "SimpleBot"
        /\ current_position[bots[tidx[t]]].open
        /\ lastOrder = NoOrder
        /\ lastReturn = NoReturn
        /\ ib_position = None

\* C37: get_bot_statuses returns exactly one status entry for every agent
\* registered at the time of the call, in registration order, whatever the
\* agents' positions and the prices the gateway returns: the list under
\* construction has one entry for each agent iterated so far, in order.
StatusForEveryAgent ==
    \A c \in Callers :
        cpc[c] = "stat_for" =>
            /\ Len(cstat[c]) = cidx[c]
            /\ \A k \in 1..Len(cstat[c]) : cstat[c][k].symbol = symbol(bots[k])

\* C38: an agent the BotLoader creates (a TradingBot), handed to add_bot with
\* a symbol no registered agent has, is accepted: add_bot returns True and
\* the agent is in the registry, to be stepped by the cycle.
LoaderAgentsAccepted ==
    /\ lastReturn.op = "add_bot"
    /\ lastReturn.arg \in Bots
    /\ kind(lastReturn.arg) = "TradingBot"
    /\ \A i \in 1..Len(bots) :
          bots[i] = lastReturn.arg \/ symbol(bots[i]) # symbol(lastReturn.arg)
    => /\ lastReturn.value = "True"
       /\ \E i \in 1..Len(bots) : bots[i] = lastReturn.arg

\* C39: the trade history of the InstantBuyBot and of the TradingBot
\* alternates BUY, SELL, BUY, ... starting with BUY, and the agent's position
\* is open exactly when the last record is a BUY.
HistoryAlternates ==
    \A b \in {"ib", "tb"} :
        LET h == HistoryOf(b)
        IN  /\ \A i \in 1..Len(h) : h[i].type = IF i % 2 = 1 THEN "BUY" ELSE "SELL"
            /\ PositionOf(b).open = (h # <<>> /\ h[Len(h)].type = "BUY")

\* C40: a failed refresh keeps the old cache.  When refresh_symbols returns
\* False or raises, the symbol cache is as it was before the call.
FailedRefreshKeepsCache ==
    [][lastReturn'.op = "refresh_symbols" /\ lastReturn'.value # "True" =>
         symbols' = IF refresh_pc = "idle" THEN symbols ELSE cache_before]_vars

====
